---- MODULE Spec2Model ----
(***************************************************************************)
(* Error classification, fallback policy and fetch pipeline of the         *)
(* duckduckgo-mcp server.                                                  *)
(*                                                                         *)
(* Python strings are modelled as sequences of one-character strings, so   *)
(* that substring tests, lower-casing and concatenation are computed as    *)
(* the code computes them.  The bullet character of the guidance texts is  *)
(* written as the single element "BULLET".  An Optional value is <<>> for  *)
(* None and <<v>> for the value v.                                         *)
(***************************************************************************)
EXTENDS Integers, Sequences, FiniteSets, TLC

VARIABLES
    op,             \* the operation in progress
    pc,             \* its position: "start", "fallback" or "done"
    args,           \* the arguments of the invocation
    calls,          \* the calls made to the upstream provider, in order
    upstream,       \* what the provider did on each call, in order
    frame,          \* the local variables of the handler suspended at a call
    policy,         \* the original_error the fallback policy was entered with
    outcome         \* what the invocation returned or raised

vars == <<op, pc, args, calls, upstream, frame, policy, outcome>>

---------------------------------------------------------------------------
(* Python built-ins on strings.                                            *)

None == <<>>

Some(v) == <<v>>

UpperChars ==
    <<"A","B","C","D","E","F","G","H","I","J","K","L","M","N","O","P","Q","R","S","T","U","V","W","X","Y","Z">>

LowerChars ==
    <<"a","b","c","d","e","f","g","h","i","j","k","l","m","n","o","p","q","r","s","t","u","v","w","x","y","z">>

\* str.lower() on one character
lower_char(c) ==
    IF \E i \in 1..Len(UpperChars) : UpperChars[i] = c
    THEN LowerChars[CHOOSE i \in 1..Len(UpperChars) : UpperChars[i] = c]
    ELSE c

\* str.upper() on one character
upper_char(c) ==
    IF \E i \in 1..Len(LowerChars) : LowerChars[i] = c
    THEN UpperChars[CHOOSE i \in 1..Len(LowerChars) : LowerChars[i] = c]
    ELSE c

\* str.lower()
lower(s) == [i \in 1..Len(s) |-> lower_char(s[i])]

\* str.upper()
upper(s) == [i \in 1..Len(s) |-> upper_char(s[i])]

\* the Python test `t in s` on two strings
Contains(s, t) ==
    \E i \in 0..(Len(s) - Len(t)) : \A j \in 1..Len(t) : s[i + j] = t[j]

\* any(indicator in s for indicator in indicators)
AnyIn(indicators, s) ==
    \E i \in 1..Len(indicators) : Contains(s, indicators[i])

---------------------------------------------------------------------------
(* The error taxonomy (exceptions.py).                                     *)

\* ErrorCategory values
ErrorCategory ==
    \* "network"
    \* "service"
    \* "validation"
    [NETWORK |-> <<"n","e","t","w","o","r","k">>, SERVICE |-> <<"s","e","r","v","i","c","e">>, VALIDATION |-> <<"v","a","l","i","d","a","t","i","o","n">>,
     \* "content"
     \* "unknown"
     CONTENT |-> <<"c","o","n","t","e","n","t">>, UNKNOWN |-> <<"u","n","k","n","o","w","n">>]

TaxonomyClasses ==
    {"MCPError", "NetworkError", "ConnectionError", "TimeoutError", "DNSError",
     "HTTPError", "RateLimitError", "ServiceUnavailableError", "ValidationError",
     "InvalidURLError", "ContentParsingError", "ServerStartupError",
     "DependencyError", "ConfigurationError", "PortBindingError"}

\* the base class of each taxonomy class
BaseOf(cls) ==
    CASE cls = "MCPError" -> "Exception"
      [] cls = "NetworkError" -> "MCPError"
      [] cls = "ConnectionError" -> "NetworkError"
      [] cls = "TimeoutError" -> "NetworkError"
      [] cls = "DNSError" -> "NetworkError"
      [] cls = "HTTPError" -> "MCPError"
      [] cls = "RateLimitError" -> "HTTPError"
      [] cls = "ServiceUnavailableError" -> "HTTPError"
      [] cls = "ValidationError" -> "MCPError"
      [] cls = "InvalidURLError" -> "ValidationError"
      [] cls = "ContentParsingError" -> "MCPError"
      [] cls = "ServerStartupError" -> "MCPError"
      [] cls = "DependencyError" -> "ServerStartupError"
      [] cls = "ConfigurationError" -> "ServerStartupError"
      [] cls = "PortBindingError" -> "ServerStartupError"
      [] OTHER -> "object"

RECURSIVE IsSubclass(_, _)
IsSubclass(cls, base) ==
    IF cls = base THEN TRUE
    ELSE IF cls \notin TaxonomyClasses THEN FALSE
    ELSE IsSubclass(BaseOf(cls), base)

\* isinstance(e, cls) for a taxonomy error e
isinstance(e, cls) == IsSubclass(e.cls, cls)

\* the class attribute error_code (every taxonomy class sets its own)
class_error_code(cls) ==
    CASE cls = "MCPError" ->
          \* "MCP_ERROR"
          <<"M","C","P","_","E","R","R","O","R">>
      [] cls = "NetworkError" ->
          \* "NETWORK_ERROR"
          <<"N","E","T","W","O","R","K","_","E","R","R","O","R">>
      [] cls = "ConnectionError" ->
          \* "CONNECTION_ERROR"
          <<"C","O","N","N","E","C","T","I","O","N","_","E","R","R","O","R">>
      [] cls = "TimeoutError" ->
          \* "TIMEOUT_ERROR"
          <<"T","I","M","E","O","U","T","_","E","R","R","O","R">>
      [] cls = "DNSError" ->
          \* "DNS_ERROR"
          <<"D","N","S","_","E","R","R","O","R">>
      [] cls = "HTTPError" ->
          \* "HTTP_ERROR"
          <<"H","T","T","P","_","E","R","R","O","R">>
      [] cls = "RateLimitError" ->
          \* "RATE_LIMIT"
          <<"R","A","T","E","_","L","I","M","I","T">>
      [] cls = "ServiceUnavailableError" ->
          \* "SERVICE_UNAVAILABLE"
          <<"S","E","R","V","I","C","E","_","U","N","A","V","A","I","L","A","B","L","E">>
      [] cls = "ValidationError" ->
          \* "VALIDATION_ERROR"
          <<"V","A","L","I","D","A","T","I","O","N","_","E","R","R","O","R">>
      [] cls = "InvalidURLError" ->
          \* "INVALID_URL"
          <<"I","N","V","A","L","I","D","_","U","R","L">>
      [] cls = "ContentParsingError" ->
          \* "CONTENT_PARSE_ERROR"
          <<"C","O","N","T","E","N","T","_","P","A","R","S","E","_","E","R","R","O","R">>
      [] cls = "ServerStartupError" ->
          \* "SERVER_STARTUP_ERROR"
          <<"S","E","R","V","E","R","_","S","T","A","R","T","U","P","_","E","R","R","O","R">>
      [] cls = "DependencyError" ->
          \* "DEPENDENCY_ERROR"
          <<"D","E","P","E","N","D","E","N","C","Y","_","E","R","R","O","R">>
      [] cls = "ConfigurationError" ->
          \* "CONFIG_ERROR"
          <<"C","O","N","F","I","G","_","E","R","R","O","R">>
      [] cls = "PortBindingError" ->
          \* "PORT_BINDING_ERROR"
          <<"P","O","R","T","_","B","I","N","D","I","N","G","_","E","R","R","O","R">>

\* the class attribute category, inherited from the nearest class that sets it
RECURSIVE class_category(_)
class_category(cls) ==
    CASE cls = "MCPError" -> ErrorCategory.UNKNOWN
      [] cls = "NetworkError" -> ErrorCategory.NETWORK
      [] cls = "HTTPError" -> ErrorCategory.SERVICE
      [] cls = "ValidationError" -> ErrorCategory.VALIDATION
      [] cls = "ContentParsingError" -> ErrorCategory.CONTENT
      [] cls = "ServerStartupError" -> ErrorCategory.SERVICE
      [] cls = "PortBindingError" -> ErrorCategory.NETWORK
      [] OTHER -> class_category(BaseOf(cls))

\* the class attribute default_guidance (every taxonomy class sets its own)
class_default_guidance(cls) ==
    CASE cls = "MCPError" ->
          \* "Please try again or check your configuration."
          <<"P","l","e","a","s","e"," ","t","r","y"," ","a","g","a","i","n"," ","o","r"," ","c","h","e","c","k"," ","y","o","u","r"," ","c","o","n","f","i","g","u","r","a","t","i","o","n",".">>
      [] cls = "NetworkError" ->
          \* "Check your internet connection and try again. If the problem persists, the remote server may be temporarily unavailable."
          <<"C","h","e","c","k"," ","y","o","u","r"," ","i","n","t","e","r","n","e","t"," ","c","o","n","n","e","c","t","i","o","n"," ","a","n","d"," ","t","r","y"," ","a","g","a","i","n","."," ","I","f"," ","t","h","e"," ","p","r","o","b","l","e","m"," ","p","e","r","s","i","s","t","s",","," ","t","h","e"," ","r","e","m","o","t","e"," ","s","e","r","v","e","r"," ","m","a","y"," ","b","e"," ","t","e","m","p","o","r","a","r","i","l","y"," ","u","n","a","v","a","i","l","a","b","l","e",".">>
      [] cls = "ConnectionError" ->
          \* "The connection was refused or reset. This could mean:\n  BULLET The server is not accepting connections\n  BULLET A firewall is blocking the request\n  BULLET The server is overloaded\nTry again in a few moments, or check if the service is available."
          <<"T","h","e"," ","c","o","n","n","e","c","t","i","o","n"," ","w","a","s"," ","r","e","f","u","s","e","d"," ","o","r"," ","r","e","s","e","t","."," ","T","h","i","s"," ","c","o","u","l","d"," ","m","e","a","n",":","\n"," "," ","BULLET"," ","T","h","e"," ","s","e","r","v","e","r"," ","i","s"," ","n","o","t"," ","a","c","c","e","p","t","i","n","g"," ","c","o","n","n","e","c","t","i","o","n","s","\n"," "," ","BULLET"," ","A"," ","f","i","r","e","w","a","l","l"," ","i","s"," ","b","l","o","c","k","i","n","g"," ","t","h","e"," ","r","e","q","u","e","s","t","\n"," "," ","BULLET"," ","T","h","e"," ","s","e","r","v","e","r"," ","i","s"," ","o","v","e","r","l","o","a","d","e","d","\n","T","r","y"," ","a","g","a","i","n"," ","i","n"," ","a"," ","f","e","w"," ","m","o","m","e","n","t","s",","," ","o","r"," ","c","h","e","c","k"," ","i","f"," ","t","h","e"," ","s","e","r","v","i","c","e"," ","i","s"," ","a","v","a","i","l","a","b","l","e",".">>
      [] cls = "TimeoutError" ->
          \* "The request timed out waiting for a response. This could be due to:\n  BULLET Slow network connection\n  BULLET Server under heavy load\n  BULLET Large response size\nTry again later, or check your network connection."
          <<"T","h","e"," ","r","e","q","u","e","s","t"," ","t","i","m","e","d"," ","o","u","t"," ","w","a","i","t","i","n","g"," ","f","o","r"," ","a"," ","r","e","s","p","o","n","s","e","."," ","T","h","i","s"," ","c","o","u","l","d"," ","b","e"," ","d","u","e"," ","t","o",":","\n"," "," ","BULLET"," ","S","l","o","w"," ","n","e","t","w","o","r","k"," ","c","o","n","n","e","c","t","i","o","n","\n"," "," ","BULLET"," ","S","e","r","v","e","r"," ","u","n","d","e","r"," ","h","e","a","v","y"," ","l","o","a","d","\n"," "," ","BULLET"," ","L","a","r","g","e"," ","r","e","s","p","o","n","s","e"," ","s","i","z","e","\n","T","r","y"," ","a","g","a","i","n"," ","l","a","t","e","r",","," ","o","r"," ","c","h","e","c","k"," ","y","o","u","r"," ","n","e","t","w","o","r","k"," ","c","o","n","n","e","c","t","i","o","n",".">>
      [] cls = "DNSError" ->
          \* "Could not resolve the hostname. Please check:\n  BULLET The URL is spelled correctly\n  BULLET Your DNS settings are working\n  BULLET The domain exists and is accessible\nTry using a different DNS server or verify the URL."
          <<"C","o","u","l","d"," ","n","o","t"," ","r","e","s","o","l","v","e"," ","t","h","e"," ","h","o","s","t","n","a","m","e","."," ","P","l","e","a","s","e"," ","c","h","e","c","k",":","\n"," "," ","BULLET"," ","T","h","e"," ","U","R","L"," ","i","s"," ","s","p","e","l","l","e","d"," ","c","o","r","r","e","c","t","l","y","\n"," "," ","BULLET"," ","Y","o","u","r"," ","D","N","S"," ","s","e","t","t","i","n","g","s"," ","a","r","e"," ","w","o","r","k","i","n","g","\n"," "," ","BULLET"," ","T","h","e"," ","d","o","m","a","i","n"," ","e","x","i","s","t","s"," ","a","n","d"," ","i","s"," ","a","c","c","e","s","s","i","b","l","e","\n","T","r","y"," ","u","s","i","n","g"," ","a"," ","d","i","f","f","e","r","e","n","t"," ","D","N","S"," ","s","e","r","v","e","r"," ","o","r"," ","v","e","r","i","f","y"," ","t","h","e"," ","U","R","L",".">>
      [] cls = "HTTPError" ->
          \* "The server returned an error response. This may be a temporary issue.\nTry again in a few moments."
          <<"T","h","e"," ","s","e","r","v","e","r"," ","r","e","t","u","r","n","e","d"," ","a","n"," ","e","r","r","o","r"," ","r","e","s","p","o","n","s","e","."," ","T","h","i","s"," ","m","a","y"," ","b","e"," ","a"," ","t","e","m","p","o","r","a","r","y"," ","i","s","s","u","e",".","\n","T","r","y"," ","a","g","a","i","n"," ","i","n"," ","a"," ","f","e","w"," ","m","o","m","e","n","t","s",".">>
      [] cls = "RateLimitError" ->
          \* "You've made too many requests in a short period. Please:\n  BULLET Wait 30-60 seconds before trying again\n  BULLET Reduce the frequency of your requests\n  BULLET Consider adding delays between consecutive requests\nThe rate limit typically resets after a brief waiting period."
          <<"Y","o","u","'","v","e"," ","m","a","d","e"," ","t","o","o"," ","m","a","n","y"," ","r","e","q","u","e","s","t","s"," ","i","n"," ","a"," ","s","h","o","r","t"," ","p","e","r","i","o","d","."," ","P","l","e","a","s","e",":","\n"," "," ","BULLET"," ","W","a","i","t"," ","3","0","-","6","0"," ","s","e","c","o","n","d","s"," ","b","e","f","o","r","e"," ","t","r","y","i","n","g"," ","a","g","a","i","n","\n"," "," ","BULLET"," ","R","e","d","u","c","e"," ","t","h","e"," ","f","r","e","q","u","e","n","c","y"," ","o","f"," ","y","o","u","r"," ","r","e","q","u","e","s","t","s","\n"," "," ","BULLET"," ","C","o","n","s","i","d","e","r"," ","a","d","d","i","n","g"," ","d","e","l","a","y","s"," ","b","e","t","w","e","e","n"," ","c","o","n","s","e","c","u","t","i","v","e"," ","r","e","q","u","e","s","t","s","\n","T","h","e"," ","r","a","t","e"," ","l","i","m","i","t"," ","t","y","p","i","c","a","l","l","y"," ","r","e","s","e","t","s"," ","a","f","t","e","r"," ","a"," ","b","r","i","e","f"," ","w","a","i","t","i","n","g"," ","p","e","r","i","o","d",".">>
      [] cls = "ServiceUnavailableError" ->
          \* "The service is temporarily unavailable. This usually means:\n  BULLET The service is undergoing maintenance\n  BULLET The service is experiencing high load\n  BULLET There's a temporary outage\nPlease try again in a few minutes. If the problem persists, check the service's status page."
          <<"T","h","e"," ","s","e","r","v","i","c","e"," ","i","s"," ","t","e","m","p","o","r","a","r","i","l","y"," ","u","n","a","v","a","i","l","a","b","l","e","."," ","T","h","i","s"," ","u","s","u","a","l","l","y"," ","m","e","a","n","s",":","\n"," "," ","BULLET"," ","T","h","e"," ","s","e","r","v","i","c","e"," ","i","s"," ","u","n","d","e","r","g","o","i","n","g"," ","m","a","i","n","t","e","n","a","n","c","e","\n"," "," ","BULLET"," ","T","h","e"," ","s","e","r","v","i","c","e"," ","i","s"," ","e","x","p","e","r","i","e","n","c","i","n","g"," ","h","i","g","h"," ","l","o","a","d","\n"," "," ","BULLET"," ","T","h","e","r","e","'","s"," ","a"," ","t","e","m","p","o","r","a","r","y"," ","o","u","t","a","g","e","\n","P","l","e","a","s","e"," ","t","r","y"," ","a","g","a","i","n"," ","i","n"," ","a"," ","f","e","w"," ","m","i","n","u","t","e","s","."," ","I","f"," ","t","h","e"," ","p","r","o","b","l","e","m"," ","p","e","r","s","i","s","t","s",","," ","c","h","e","c","k"," ","t","h","e"," ","s","e","r","v","i","c","e","'","s"," ","s","t","a","t","u","s"," ","p","a","g","e",".">>
      [] cls = "ValidationError" ->
          \* "The provided input is invalid. Please check:\n  BULLET All required parameters are provided\n  BULLET Values are in the expected format\n  BULLET Values are within acceptable ranges\nRefer to the documentation for valid input examples."
          <<"T","h","e"," ","p","r","o","v","i","d","e","d"," ","i","n","p","u","t"," ","i","s"," ","i","n","v","a","l","i","d","."," ","P","l","e","a","s","e"," ","c","h","e","c","k",":","\n"," "," ","BULLET"," ","A","l","l"," ","r","e","q","u","i","r","e","d"," ","p","a","r","a","m","e","t","e","r","s"," ","a","r","e"," ","p","r","o","v","i","d","e","d","\n"," "," ","BULLET"," ","V","a","l","u","e","s"," ","a","r","e"," ","i","n"," ","t","h","e"," ","e","x","p","e","c","t","e","d"," ","f","o","r","m","a","t","\n"," "," ","BULLET"," ","V","a","l","u","e","s"," ","a","r","e"," ","w","i","t","h","i","n"," ","a","c","c","e","p","t","a","b","l","e"," ","r","a","n","g","e","s","\n","R","e","f","e","r"," ","t","o"," ","t","h","e"," ","d","o","c","u","m","e","n","t","a","t","i","o","n"," ","f","o","r"," ","v","a","l","i","d"," ","i","n","p","u","t"," ","e","x","a","m","p","l","e","s",".">>
      [] cls = "InvalidURLError" ->
          \* "The provided URL is invalid. Please ensure:\n  BULLET URL starts with http:// or https://\n  BULLET URL contains a valid domain name\n  BULLET URL has no invalid characters or spaces\nExample valid URLs:\n  BULLET https://example.com\n  BULLET https://www.example.com/page\n  BULLET https://example.com/path?query=value"
          <<"T","h","e"," ","p","r","o","v","i","d","e","d"," ","U","R","L"," ","i","s"," ","i","n","v","a","l","i","d","."," ","P","l","e","a","s","e"," ","e","n","s","u","r","e",":","\n"," "," ","BULLET"," ","U","R","L"," ","s","t","a","r","t","s"," ","w","i","t","h"," ","h","t","t","p",":","/","/"," ","o","r"," ","h","t","t","p","s",":","/","/","\n"," "," ","BULLET"," ","U","R","L"," ","c","o","n","t","a","i","n","s"," ","a"," ","v","a","l","i","d"," ","d","o","m","a","i","n"," ","n","a","m","e","\n"," "," ","BULLET"," ","U","R","L"," ","h","a","s"," ","n","o"," ","i","n","v","a","l","i","d"," ","c","h","a","r","a","c","t","e","r","s"," ","o","r"," ","s","p","a","c","e","s","\n","E","x","a","m","p","l","e"," ","v","a","l","i","d"," ","U","R","L","s",":","\n"," "," ","BULLET"," ","h","t","t","p","s",":","/","/","e","x","a","m","p","l","e",".","c","o","m","\n"," "," ","BULLET"," ","h","t","t","p","s",":","/","/","w","w","w",".","e","x","a","m","p","l","e",".","c","o","m","/","p","a","g","e","\n"," "," ","BULLET"," ","h","t","t","p","s",":","/","/","e","x","a","m","p","l","e",".","c","o","m","/","p","a","t","h","?","q","u","e","r","y","=","v","a","l","u","e">>
      [] cls = "ContentParsingError" ->
          \* "Failed to parse the response content. This could be due to:\n  BULLET The server returned unexpected content format\n  BULLET The response was truncated or corrupted\n  BULLET Character encoding issues\nTry the request again, or try a different URL if the problem persists."
          <<"F","a","i","l","e","d"," ","t","o"," ","p","a","r","s","e"," ","t","h","e"," ","r","e","s","p","o","n","s","e"," ","c","o","n","t","e","n","t","."," ","T","h","i","s"," ","c","o","u","l","d"," ","b","e"," ","d","u","e"," ","t","o",":","\n"," "," ","BULLET"," ","T","h","e"," ","s","e","r","v","e","r"," ","r","e","t","u","r","n","e","d"," ","u","n","e","x","p","e","c","t","e","d"," ","c","o","n","t","e","n","t"," ","f","o","r","m","a","t","\n"," "," ","BULLET"," ","T","h","e"," ","r","e","s","p","o","n","s","e"," ","w","a","s"," ","t","r","u","n","c","a","t","e","d"," ","o","r"," ","c","o","r","r","u","p","t","e","d","\n"," "," ","BULLET"," ","C","h","a","r","a","c","t","e","r"," ","e","n","c","o","d","i","n","g"," ","i","s","s","u","e","s","\n","T","r","y"," ","t","h","e"," ","r","e","q","u","e","s","t"," ","a","g","a","i","n",","," ","o","r"," ","t","r","y"," ","a"," ","d","i","f","f","e","r","e","n","t"," ","U","R","L"," ","i","f"," ","t","h","e"," ","p","r","o","b","l","e","m"," ","p","e","r","s","i","s","t","s",".">>
      [] cls = "ServerStartupError" ->
          \* "The MCP server failed to start. Please check:\n  BULLET All required dependencies are installed\n  BULLET Configuration is valid\n  BULLET No other process is using required resources\nRun with --debug for more details."
          <<"T","h","e"," ","M","C","P"," ","s","e","r","v","e","r"," ","f","a","i","l","e","d"," ","t","o"," ","s","t","a","r","t","."," ","P","l","e","a","s","e"," ","c","h","e","c","k",":","\n"," "," ","BULLET"," ","A","l","l"," ","r","e","q","u","i","r","e","d"," ","d","e","p","e","n","d","e","n","c","i","e","s"," ","a","r","e"," ","i","n","s","t","a","l","l","e","d","\n"," "," ","BULLET"," ","C","o","n","f","i","g","u","r","a","t","i","o","n"," ","i","s"," ","v","a","l","i","d","\n"," "," ","BULLET"," ","N","o"," ","o","t","h","e","r"," ","p","r","o","c","e","s","s"," ","i","s"," ","u","s","i","n","g"," ","r","e","q","u","i","r","e","d"," ","r","e","s","o","u","r","c","e","s","\n","R","u","n"," ","w","i","t","h"," ","-","-","d","e","b","u","g"," ","f","o","r"," ","m","o","r","e"," ","d","e","t","a","i","l","s",".">>
      [] cls = "DependencyError" ->
          \* "A required dependency is missing or incompatible. To fix:\n  1. Ensure you've installed all dependencies:\n     pip install duckduckgo-mcp\n  2. Or for development:\n     pip install -e '.[dev]'\n  3. If using uv:\n     uv pip install duckduckgo-mcp\nCheck the error message for the specific missing package."
          <<"A"," ","r","e","q","u","i","r","e","d"," ","d","e","p","e","n","d","e","n","c","y"," ","i","s"," ","m","i","s","s","i","n","g"," ","o","r"," ","i","n","c","o","m","p","a","t","i","b","l","e","."," ","T","o"," ","f","i","x",":","\n"," "," ","1","."," ","E","n","s","u","r","e"," ","y","o","u","'","v","e"," ","i","n","s","t","a","l","l","e","d"," ","a","l","l"," ","d","e","p","e","n","d","e","n","c","i","e","s",":","\n"," "," "," "," "," ","p","i","p"," ","i","n","s","t","a","l","l"," ","d","u","c","k","d","u","c","k","g","o","-","m","c","p","\n"," "," ","2","."," ","O","r"," ","f","o","r"," ","d","e","v","e","l","o","p","m","e","n","t",":","\n"," "," "," "," "," ","p","i","p"," ","i","n","s","t","a","l","l"," ","-","e"," ","'",".","[","d","e","v","]","'","\n"," "," ","3","."," ","I","f"," ","u","s","i","n","g"," ","u","v",":","\n"," "," "," "," "," ","u","v"," ","p","i","p"," ","i","n","s","t","a","l","l"," ","d","u","c","k","d","u","c","k","g","o","-","m","c","p","\n","C","h","e","c","k"," ","t","h","e"," ","e","r","r","o","r"," ","m","e","s","s","a","g","e"," ","f","o","r"," ","t","h","e"," ","s","p","e","c","i","f","i","c"," ","m","i","s","s","i","n","g"," ","p","a","c","k","a","g","e",".">>
      [] cls = "ConfigurationError" ->
          \* "The server configuration is invalid. Please check:\n  BULLET MCP client configuration (e.g., Claude Desktop config)\n  BULLET Environment variables are set correctly\n  BULLET Command-line arguments are valid\nRefer to the README for configuration examples."
          <<"T","h","e"," ","s","e","r","v","e","r"," ","c","o","n","f","i","g","u","r","a","t","i","o","n"," ","i","s"," ","i","n","v","a","l","i","d","."," ","P","l","e","a","s","e"," ","c","h","e","c","k",":","\n"," "," ","BULLET"," ","M","C","P"," ","c","l","i","e","n","t"," ","c","o","n","f","i","g","u","r","a","t","i","o","n"," ","(","e",".","g",".",","," ","C","l","a","u","d","e"," ","D","e","s","k","t","o","p"," ","c","o","n","f","i","g",")","\n"," "," ","BULLET"," ","E","n","v","i","r","o","n","m","e","n","t"," ","v","a","r","i","a","b","l","e","s"," ","a","r","e"," ","s","e","t"," ","c","o","r","r","e","c","t","l","y","\n"," "," ","BULLET"," ","C","o","m","m","a","n","d","-","l","i","n","e"," ","a","r","g","u","m","e","n","t","s"," ","a","r","e"," ","v","a","l","i","d","\n","R","e","f","e","r"," ","t","o"," ","t","h","e"," ","R","E","A","D","M","E"," ","f","o","r"," ","c","o","n","f","i","g","u","r","a","t","i","o","n"," ","e","x","a","m","p","l","e","s",".">>
      [] cls = "PortBindingError" ->
          \* "Failed to bind to the required network port. This could mean:\n  BULLET Another process is using the port (check with 'lsof -i :<port>')\n  BULLET The port requires elevated privileges (ports < 1024)\n  BULLET A firewall is blocking access\nTry stopping other services or using a different port."
          <<"F","a","i","l","e","d"," ","t","o"," ","b","i","n","d"," ","t","o"," ","t","h","e"," ","r","e","q","u","i","r","e","d"," ","n","e","t","w","o","r","k"," ","p","o","r","t","."," ","T","h","i","s"," ","c","o","u","l","d"," ","m","e","a","n",":","\n"," "," ","BULLET"," ","A","n","o","t","h","e","r"," ","p","r","o","c","e","s","s"," ","i","s"," ","u","s","i","n","g"," ","t","h","e"," ","p","o","r","t"," ","(","c","h","e","c","k"," ","w","i","t","h"," ","'","l","s","o","f"," ","-","i"," ",":","<","p","o","r","t",">","'",")","\n"," "," ","BULLET"," ","T","h","e"," ","p","o","r","t"," ","r","e","q","u","i","r","e","s"," ","e","l","e","v","a","t","e","d"," ","p","r","i","v","i","l","e","g","e","s"," ","(","p","o","r","t","s"," ","<"," ","1","0","2","4",")","\n"," "," ","BULLET"," ","A"," ","f","i","r","e","w","a","l","l"," ","i","s"," ","b","l","o","c","k","i","n","g"," ","a","c","c","e","s","s","\n","T","r","y"," ","s","t","o","p","p","i","n","g"," ","o","t","h","e","r"," ","s","e","r","v","i","c","e","s"," ","o","r"," ","u","s","i","n","g"," ","a"," ","d","i","f","f","e","r","e","n","t"," ","p","o","r","t",".">>

\* MCPError.__init__: error_code and category override the class attributes
\* only when given; the instance guidance is stored as given (None or a text)
MCPError_init(cls, message, error_code, category, guidance) ==
    [cls          |-> cls,
     message      |-> message,
     error_code   |-> IF error_code /= None THEN error_code[1] ELSE class_error_code(cls),
     category     |-> IF category /= None THEN category[1] ELSE class_category(cls),
     guidance_    |-> guidance,
     status_code  |-> None,
     retry_after  |-> None,
     url          |-> None,
     content_type |-> None,
     port         |-> None]

\* HTTPError.__init__
HTTPError_init(cls, message, status_code, error_code, category, guidance) ==
    [MCPError_init(cls, message, error_code, category, guidance)
        EXCEPT !.status_code = status_code]

\* RateLimitError.__init__: status_code defaults to 429
RateLimitError_init(message, retry_after, status_code, error_code, category, guidance) ==
    [HTTPError_init("RateLimitError", message,
                    IF status_code = None THEN Some(429) ELSE status_code,
                    error_code, category, guidance)
        EXCEPT !.retry_after = retry_after]

\* ServiceUnavailableError.__init__: status_code defaults to 503
ServiceUnavailableError_init(message, status_code, error_code, category, guidance) ==
    HTTPError_init("ServiceUnavailableError", message,
                   IF status_code = None THEN Some(503) ELSE status_code,
                   error_code, category, guidance)

\* InvalidURLError.__init__
InvalidURLError_init(message, url, error_code, category, guidance) ==
    [MCPError_init("InvalidURLError", message, error_code, category, guidance)
        EXCEPT !.url = url]

\* ContentParsingError.__init__
ContentParsingError_init(message, content_type, error_code, category, guidance) ==
    [MCPError_init("ContentParsingError", message, error_code, category, guidance)
        EXCEPT !.content_type = content_type]

Digits == <<"0","1","2","3","4","5","6","7","8","9">>

\* str(n) for an int n
RECURSIVE int_str(_)
int_str(n) ==
    IF n < 0 THEN <<"-">> \o int_str(0 - n)
    ELSE IF n < 10 THEN <<Digits[n + 1]>>
    ELSE int_str(n \div 10) \o <<Digits[(n % 10) + 1]>>

\* PortBindingError.__init__
PortBindingError_init(message, port, error_code, category, guidance) ==
    [MCPError_init("PortBindingError", message, error_code, category, guidance)
        EXCEPT !.port = port]

\* the guidance property (MCPError.guidance, overridden by RateLimitError
\* and by PortBindingError)
guidance(e) ==
    IF e.guidance_ /= None THEN e.guidance_[1]
    ELSE IF isinstance(e, "PortBindingError") /\ e.port /= None
    \* "Failed to bind to port "
    THEN <<"F","a","i","l","e","d"," ","t","o"," ","b","i","n","d"," ","t","o"," ","p","o","r","t"," ">> \o int_str(e.port[1])
         \* ". This could mean:\n  BULLET Another process is using port "
         \o <<"."," ","T","h","i","s"," ","c","o","u","l","d"," ","m","e","a","n",":","\n"," "," ","BULLET"," ","A","n","o","t","h","e","r"," ","p","r","o","c","e","s","s"," ","i","s"," ","u","s","i","n","g"," ","p","o","r","t"," ">> \o int_str(e.port[1])
         \* " (check with 'lsof -i :"
         \o <<" ","(","c","h","e","c","k"," ","w","i","t","h"," ","'","l","s","o","f"," ","-","i"," ",":">> \o int_str(e.port[1])
         \* "')\n  BULLET The port requires elevated privileges (ports < 1024)\n  BULLET A firewall is blocking access\nTry stopping other services or using a different port."
         \o <<"'",")","\n"," "," ","BULLET"," ","T","h","e"," ","p","o","r","t"," ","r","e","q","u","i","r","e","s"," ","e","l","e","v","a","t","e","d"," ","p","r","i","v","i","l","e","g","e","s"," ","(","p","o","r","t","s"," ","<"," ","1","0","2","4",")","\n"," "," ","BULLET"," ","A"," ","f","i","r","e","w","a","l","l"," ","i","s"," ","b","l","o","c","k","i","n","g"," ","a","c","c","e","s","s","\n","T","r","y"," ","s","t","o","p","p","i","n","g"," ","o","t","h","e","r"," ","s","e","r","v","i","c","e","s"," ","o","r"," ","u","s","i","n","g"," ","a"," ","d","i","f","f","e","r","e","n","t"," ","p","o","r","t",".">>
    ELSE IF isinstance(e, "RateLimitError") /\ e.retry_after /= None
    \* "You've been rate limited. Please wait "
    THEN <<"Y","o","u","'","v","e"," ","b","e","e","n"," ","r","a","t","e"," ","l","i","m","i","t","e","d","."," ","P","l","e","a","s","e"," ","w","a","i","t"," ">> \o int_str(e.retry_after[1])
         \* " seconds before trying again.\n  BULLET Reduce the frequency of your requests\n  BULLET Consider adding delays between consecutive requests"
         \o <<" ","s","e","c","o","n","d","s"," ","b","e","f","o","r","e"," ","t","r","y","i","n","g"," ","a","g","a","i","n",".","\n"," "," ","BULLET"," ","R","e","d","u","c","e"," ","t","h","e"," ","f","r","e","q","u","e","n","c","y"," ","o","f"," ","y","o","u","r"," ","r","e","q","u","e","s","t","s","\n"," "," ","BULLET"," ","C","o","n","s","i","d","e","r"," ","a","d","d","i","n","g"," ","d","e","l","a","y","s"," ","b","e","t","w","e","e","n"," ","c","o","n","s","e","c","u","t","i","v","e"," ","r","e","q","u","e","s","t","s">>
    ELSE class_default_guidance(e.cls)

\* str(e) for a taxonomy error (MCPError.__str__, overridden by HTTPError)
MCPError_str(e) ==
    <<"[">> \o upper(e.category) \o <<":">> \o e.error_code \o <<"]">>
    \o (IF isinstance(e, "HTTPError") /\ e.status_code /= None /\ e.status_code[1] /= 0
        \* " (HTTP "
        THEN <<" ","(","H","T","T","P"," ">> \o int_str(e.status_code[1]) \o <<")">>
        ELSE <<>>)
    \* "\nGuidance: "
    \o <<" ">> \o e.message \o <<"\n","G","u","i","d","a","n","c","e",":"," ">> \o guidance(e)

---------------------------------------------------------------------------
(* Upstream exceptions.  An exception raised by a provider call is a       *)
(* record [type, text, err]: its class, the text it was built with, and    *)
(* for a taxonomy error raised by the call the error itself.               *)

\* str(error): the message text, or MCPError.__str__ for a taxonomy error
str(error) ==
    IF error.type = "MCPError" THEN MCPError_str(error.err[1]) ELSE error.text

---------------------------------------------------------------------------
(* The search error classifier (duckduckgo_search.py).                     *)

rate_limit_indicators ==
    \* "rate"
    \* "ratelimit"
    \* "too many requests"
    \* "429"
    \* "blocked"
    << <<"r","a","t","e">>, <<"r","a","t","e","l","i","m","i","t">>, <<"t","o","o"," ","m","a","n","y"," ","r","e","q","u","e","s","t","s">>, <<"4","2","9">>, <<"b","l","o","c","k","e","d">>,
       \* "temporarily blocked"
       \* "please wait"
       \* "try again later"
       <<"t","e","m","p","o","r","a","r","i","l","y"," ","b","l","o","c","k","e","d">>, <<"p","l","e","a","s","e"," ","w","a","i","t">>, <<"t","r","y"," ","a","g","a","i","n"," ","l","a","t","e","r">>,
       \* "exceeded"
       \* "throttle"
       <<"e","x","c","e","e","d","e","d">>, <<"t","h","r","o","t","t","l","e">> >>

timeout_indicators ==
    \* "timeout"
    \* "timed out"
    \* "time out"
    \* "request timeout"
    << <<"t","i","m","e","o","u","t">>, <<"t","i","m","e","d"," ","o","u","t">>, <<"t","i","m","e"," ","o","u","t">>, <<"r","e","q","u","e","s","t"," ","t","i","m","e","o","u","t">> >>

network_indicators ==
    \* "connection"
    \* "network"
    \* "connect failed"
    \* "unable to connect"
    << <<"c","o","n","n","e","c","t","i","o","n">>, <<"n","e","t","w","o","r","k">>, <<"c","o","n","n","e","c","t"," ","f","a","i","l","e","d">>, <<"u","n","a","b","l","e"," ","t","o"," ","c","o","n","n","e","c","t">>,
       \* "no internet"
       \* "dns"
       \* "resolve"
       \* "unreachable"
       \* "refused"
       <<"n","o"," ","i","n","t","e","r","n","e","t">>, <<"d","n","s">>, <<"r","e","s","o","l","v","e">>, <<"u","n","r","e","a","c","h","a","b","l","e">>, <<"r","e","f","u","s","e","d">> >>

service_indicators ==
    \* "503"
    \* "service unavailable"
    \* "unavailable"
    \* "maintenance"
    << <<"5","0","3">>, <<"s","e","r","v","i","c","e"," ","u","n","a","v","a","i","l","a","b","l","e">>, <<"u","n","a","v","a","i","l","a","b","l","e">>, <<"m","a","i","n","t","e","n","a","n","c","e">>,
       \* "temporarily"
       \* "down"
       <<"t","e","m","p","o","r","a","r","i","l","y">>, <<"d","o","w","n">> >>

backend_indicators ==
    \* "backend"
    \* "search backend"
    \* "api error"
    << <<"b","a","c","k","e","n","d">>, <<"s","e","a","r","c","h"," ","b","a","c","k","e","n","d">>, <<"a","p","i"," ","e","r","r","o","r">> >>

empty_indicators ==
    \* "no results"
    \* "empty"
    \* "nothing found"
    << <<"n","o"," ","r","e","s","u","l","t","s">>, <<"e","m","p","t","y">>, <<"n","o","t","h","i","n","g"," ","f","o","u","n","d">> >>

\* f" for query: '{query}'" if query else ""
query_context(query) ==
    IF query /= None /\ query[1] /= <<>>
    \* " for query: '"
    \* "'"
    THEN <<" ","f","o","r"," ","q","u","e","r","y",":"," ","'">> \o query[1] \o <<"'">>
    ELSE <<>>

\* a classifier that leaves the backend out of its messages
backend_context_left_out(backend) == <<>>

\* f" using backend '{backend}'" if backend else ""
backend_context(backend) ==
    IF backend /= None /\ backend[1] /= <<>>
    \* " using backend '"
    \* "'"
    THEN <<" ","u","s","i","n","g"," ","b","a","c","k","e","n","d"," ","'">> \o backend[1] \o <<"'">>
    ELSE <<>>

guidance_search_rate_limit ==
    \* "DuckDuckGo has rate limited your requests. To resolve this:\n  BULLET Wait 30-60 seconds before trying again\n  BULLET Reduce the frequency of search requests\n  BULLET Consider adding delays between consecutive searches\n  BULLET If using automated scripts, implement backoff strategies\nThe rate limit typically resets after a brief waiting period."
    <<"D","u","c","k","D","u","c","k","G","o"," ","h","a","s"," ","r","a","t","e"," ","l","i","m","i","t","e","d"," ","y","o","u","r"," ","r","e","q","u","e","s","t","s","."," ","T","o"," ","r","e","s","o","l","v","e"," ","t","h","i","s",":","\n"," "," ","BULLET"," ","W","a","i","t"," ","3","0","-","6","0"," ","s","e","c","o","n","d","s"," ","b","e","f","o","r","e"," ","t","r","y","i","n","g"," ","a","g","a","i","n","\n"," "," ","BULLET"," ","R","e","d","u","c","e"," ","t","h","e"," ","f","r","e","q","u","e","n","c","y"," ","o","f"," ","s","e","a","r","c","h"," ","r","e","q","u","e","s","t","s","\n"," "," ","BULLET"," ","C","o","n","s","i","d","e","r"," ","a","d","d","i","n","g"," ","d","e","l","a","y","s"," ","b","e","t","w","e","e","n"," ","c","o","n","s","e","c","u","t","i","v","e"," ","s","e","a","r","c","h","e","s","\n"," "," ","BULLET"," ","I","f"," ","u","s","i","n","g"," ","a","u","t","o","m","a","t","e","d"," ","s","c","r","i","p","t","s",","," ","i","m","p","l","e","m","e","n","t"," ","b","a","c","k","o","f","f"," ","s","t","r","a","t","e","g","i","e","s","\n","T","h","e"," ","r","a","t","e"," ","l","i","m","i","t"," ","t","y","p","i","c","a","l","l","y"," ","r","e","s","e","t","s"," ","a","f","t","e","r"," ","a"," ","b","r","i","e","f"," ","w","a","i","t","i","n","g"," ","p","e","r","i","o","d",".">>

guidance_search_timeout ==
    \* "The search request timed out. This could be due to:\n  BULLET Slow network connection\n  BULLET DuckDuckGo servers under heavy load\n  BULLET Complex or broad search query\nTry:\n  BULLET Simplifying your search query\n  BULLET Reducing max_results\n  BULLET Waiting a moment and trying again"
    <<"T","h","e"," ","s","e","a","r","c","h"," ","r","e","q","u","e","s","t"," ","t","i","m","e","d"," ","o","u","t","."," ","T","h","i","s"," ","c","o","u","l","d"," ","b","e"," ","d","u","e"," ","t","o",":","\n"," "," ","BULLET"," ","S","l","o","w"," ","n","e","t","w","o","r","k"," ","c","o","n","n","e","c","t","i","o","n","\n"," "," ","BULLET"," ","D","u","c","k","D","u","c","k","G","o"," ","s","e","r","v","e","r","s"," ","u","n","d","e","r"," ","h","e","a","v","y"," ","l","o","a","d","\n"," "," ","BULLET"," ","C","o","m","p","l","e","x"," ","o","r"," ","b","r","o","a","d"," ","s","e","a","r","c","h"," ","q","u","e","r","y","\n","T","r","y",":","\n"," "," ","BULLET"," ","S","i","m","p","l","i","f","y","i","n","g"," ","y","o","u","r"," ","s","e","a","r","c","h"," ","q","u","e","r","y","\n"," "," ","BULLET"," ","R","e","d","u","c","i","n","g"," ","m","a","x","_","r","e","s","u","l","t","s","\n"," "," ","BULLET"," ","W","a","i","t","i","n","g"," ","a"," ","m","o","m","e","n","t"," ","a","n","d"," ","t","r","y","i","n","g"," ","a","g","a","i","n">>

guidance_search_network ==
    \* "Could not connect to DuckDuckGo. Please check:\n  BULLET Your internet connection is working\n  BULLET DuckDuckGo is accessible from your network\n  BULLET No firewall or proxy is blocking the connection\nTry again in a few moments."
    <<"C","o","u","l","d"," ","n","o","t"," ","c","o","n","n","e","c","t"," ","t","o"," ","D","u","c","k","D","u","c","k","G","o","."," ","P","l","e","a","s","e"," ","c","h","e","c","k",":","\n"," "," ","BULLET"," ","Y","o","u","r"," ","i","n","t","e","r","n","e","t"," ","c","o","n","n","e","c","t","i","o","n"," ","i","s"," ","w","o","r","k","i","n","g","\n"," "," ","BULLET"," ","D","u","c","k","D","u","c","k","G","o"," ","i","s"," ","a","c","c","e","s","s","i","b","l","e"," ","f","r","o","m"," ","y","o","u","r"," ","n","e","t","w","o","r","k","\n"," "," ","BULLET"," ","N","o"," ","f","i","r","e","w","a","l","l"," ","o","r"," ","p","r","o","x","y"," ","i","s"," ","b","l","o","c","k","i","n","g"," ","t","h","e"," ","c","o","n","n","e","c","t","i","o","n","\n","T","r","y"," ","a","g","a","i","n"," ","i","n"," ","a"," ","f","e","w"," ","m","o","m","e","n","t","s",".">>

guidance_search_service ==
    \* "DuckDuckGo is temporarily unavailable. This could mean:\n  BULLET The service is undergoing maintenance\n  BULLET There's a temporary outage\n  BULLET The service is experiencing high load\nPlease try again in a few minutes."
    <<"D","u","c","k","D","u","c","k","G","o"," ","i","s"," ","t","e","m","p","o","r","a","r","i","l","y"," ","u","n","a","v","a","i","l","a","b","l","e","."," ","T","h","i","s"," ","c","o","u","l","d"," ","m","e","a","n",":","\n"," "," ","BULLET"," ","T","h","e"," ","s","e","r","v","i","c","e"," ","i","s"," ","u","n","d","e","r","g","o","i","n","g"," ","m","a","i","n","t","e","n","a","n","c","e","\n"," "," ","BULLET"," ","T","h","e","r","e","'","s"," ","a"," ","t","e","m","p","o","r","a","r","y"," ","o","u","t","a","g","e","\n"," "," ","BULLET"," ","T","h","e"," ","s","e","r","v","i","c","e"," ","i","s"," ","e","x","p","e","r","i","e","n","c","i","n","g"," ","h","i","g","h"," ","l","o","a","d","\n","P","l","e","a","s","e"," ","t","r","y"," ","a","g","a","i","n"," ","i","n"," ","a"," ","f","e","w"," ","m","i","n","u","t","e","s",".">>

guidance_search_backend ==
    \* "The search backend encountered an error. The tool will attempt to use a fallback backend automatically.\nIf the error persists:\n  BULLET The query may be too complex\n  BULLET DuckDuckGo may be experiencing issues\n  BULLET Try rephrasing your search query"
    <<"T","h","e"," ","s","e","a","r","c","h"," ","b","a","c","k","e","n","d"," ","e","n","c","o","u","n","t","e","r","e","d"," ","a","n"," ","e","r","r","o","r","."," ","T","h","e"," ","t","o","o","l"," ","w","i","l","l"," ","a","t","t","e","m","p","t"," ","t","o"," ","u","s","e"," ","a"," ","f","a","l","l","b","a","c","k"," ","b","a","c","k","e","n","d"," ","a","u","t","o","m","a","t","i","c","a","l","l","y",".","\n","I","f"," ","t","h","e"," ","e","r","r","o","r"," ","p","e","r","s","i","s","t","s",":","\n"," "," ","BULLET"," ","T","h","e"," ","q","u","e","r","y"," ","m","a","y"," ","b","e"," ","t","o","o"," ","c","o","m","p","l","e","x","\n"," "," ","BULLET"," ","D","u","c","k","D","u","c","k","G","o"," ","m","a","y"," ","b","e"," ","e","x","p","e","r","i","e","n","c","i","n","g"," ","i","s","s","u","e","s","\n"," "," ","BULLET"," ","T","r","y"," ","r","e","p","h","r","a","s","i","n","g"," ","y","o","u","r"," ","s","e","a","r","c","h"," ","q","u","e","r","y">>

guidance_search_empty ==
    \* "The search returned no results. This could mean:\n  BULLET The query is too specific or unusual\n  BULLET DuckDuckGo couldn't find matching content\n  BULLET There may be a temporary issue\nTry:\n  BULLET Rephrasing your search query\n  BULLET Using broader search terms\n  BULLET Checking spelling"
    <<"T","h","e"," ","s","e","a","r","c","h"," ","r","e","t","u","r","n","e","d"," ","n","o"," ","r","e","s","u","l","t","s","."," ","T","h","i","s"," ","c","o","u","l","d"," ","m","e","a","n",":","\n"," "," ","BULLET"," ","T","h","e"," ","q","u","e","r","y"," ","i","s"," ","t","o","o"," ","s","p","e","c","i","f","i","c"," ","o","r"," ","u","n","u","s","u","a","l","\n"," "," ","BULLET"," ","D","u","c","k","D","u","c","k","G","o"," ","c","o","u","l","d","n","'","t"," ","f","i","n","d"," ","m","a","t","c","h","i","n","g"," ","c","o","n","t","e","n","t","\n"," "," ","BULLET"," ","T","h","e","r","e"," ","m","a","y"," ","b","e"," ","a"," ","t","e","m","p","o","r","a","r","y"," ","i","s","s","u","e","\n","T","r","y",":","\n"," "," ","BULLET"," ","R","e","p","h","r","a","s","i","n","g"," ","y","o","u","r"," ","s","e","a","r","c","h"," ","q","u","e","r","y","\n"," "," ","BULLET"," ","U","s","i","n","g"," ","b","r","o","a","d","e","r"," ","s","e","a","r","c","h"," ","t","e","r","m","s","\n"," "," ","BULLET"," ","C","h","e","c","k","i","n","g"," ","s","p","e","l","l","i","n","g">>

guidance_search_generic ==
    \* "An unexpected search error occurred. Please:\n  BULLET Check your internet connection\n  BULLET Try a different search query\n  BULLET Wait a moment and try again\nIf the problem persists, DuckDuckGo may be experiencing issues."
    <<"A","n"," ","u","n","e","x","p","e","c","t","e","d"," ","s","e","a","r","c","h"," ","e","r","r","o","r"," ","o","c","c","u","r","r","e","d","."," ","P","l","e","a","s","e",":","\n"," "," ","BULLET"," ","C","h","e","c","k"," ","y","o","u","r"," ","i","n","t","e","r","n","e","t"," ","c","o","n","n","e","c","t","i","o","n","\n"," "," ","BULLET"," ","T","r","y"," ","a"," ","d","i","f","f","e","r","e","n","t"," ","s","e","a","r","c","h"," ","q","u","e","r","y","\n"," "," ","BULLET"," ","W","a","i","t"," ","a"," ","m","o","m","e","n","t"," ","a","n","d"," ","t","r","y"," ","a","g","a","i","n","\n","I","f"," ","t","h","e"," ","p","r","o","b","l","e","m"," ","p","e","r","s","i","s","t","s",","," ","D","u","c","k","D","u","c","k","G","o"," ","m","a","y"," ","b","e"," ","e","x","p","e","r","i","e","n","c","i","n","g"," ","i","s","s","u","e","s",".">>

\* the classifier testing the network set before the timeout set
classify_search_error_network_first(error, query, backend) ==
    LET error_str == lower(str(error))
        qc == query_context(query)
        bc == backend_context(backend)
    IN  IF AnyIn(rate_limit_indicators, error_str)
        THEN RateLimitError_init(
                 \* "Rate limited"
                 \* ". DuckDuckGo has temporarily blocked requests."
                 <<"R","a","t","e"," ","l","i","m","i","t","e","d">> \o qc \o <<"."," ","D","u","c","k","D","u","c","k","G","o"," ","h","a","s"," ","t","e","m","p","o","r","a","r","i","l","y"," ","b","l","o","c","k","e","d"," ","r","e","q","u","e","s","t","s",".">>,
                 None, None, None, None, Some(guidance_search_rate_limit))
        ELSE IF AnyIn(network_indicators, error_str)
        THEN MCPError_init("NetworkError",
                 \* "Network error"
                 \* ". Unable to connect to DuckDuckGo."
                 <<"N","e","t","w","o","r","k"," ","e","r","r","o","r">> \o qc \o <<"."," ","U","n","a","b","l","e"," ","t","o"," ","c","o","n","n","e","c","t"," ","t","o"," ","D","u","c","k","D","u","c","k","G","o",".">>,
                 None, None, Some(guidance_search_network))
        ELSE IF AnyIn(timeout_indicators, error_str)
        THEN MCPError_init("TimeoutError",
                 \* "Search timed out"
                 \* ". "
                 \* "The search took too long to complete."
                 <<"S","e","a","r","c","h"," ","t","i","m","e","d"," ","o","u","t">> \o qc \o bc \o <<"."," ">> \o <<"T","h","e"," ","s","e","a","r","c","h"," ","t","o","o","k"," ","t","o","o"," ","l","o","n","g"," ","t","o"," ","c","o","m","p","l","e","t","e",".">>,
                 None, None, Some(guidance_search_timeout))
        ELSE IF AnyIn(service_indicators, error_str)
        THEN ServiceUnavailableError_init(
                 \* "Service unavailable"
                 \* ". DuckDuckGo is temporarily unavailable."
                 <<"S","e","r","v","i","c","e"," ","u","n","a","v","a","i","l","a","b","l","e">> \o qc \o <<"."," ","D","u","c","k","D","u","c","k","G","o"," ","i","s"," ","t","e","m","p","o","r","a","r","i","l","y"," ","u","n","a","v","a","i","l","a","b","l","e",".">>,
                 None, None, None, Some(guidance_search_service))
        ELSE IF AnyIn(backend_indicators, error_str)
        THEN MCPError_init("NetworkError",
                 \* "Search backend error"
                 \* "."
                 <<"S","e","a","r","c","h"," ","b","a","c","k","e","n","d"," ","e","r","r","o","r">> \o qc \o bc \o <<".">>,
                 None, None, Some(guidance_search_backend))
        ELSE IF AnyIn(empty_indicators, error_str)
        THEN MCPError_init("NetworkError",
                 \* "No results returned"
                 \* "."
                 <<"N","o"," ","r","e","s","u","l","t","s"," ","r","e","t","u","r","n","e","d">> \o qc \o <<".">>,
                 None, None, Some(guidance_search_empty))
        ELSE MCPError_init("NetworkError",
                 \* "Search error"
                 \* ": "
                 <<"S","e","a","r","c","h"," ","e","r","r","o","r">> \o qc \o bc \o <<":"," ">> \o str(error),
                 None, None, Some(guidance_search_generic))

\* the classifier embedding the lower-cased text in its default branch
classify_search_error_lowered_text(error, query, backend) ==
    LET error_str == lower(str(error))
        qc == query_context(query)
        bc == backend_context(backend)
    IN  IF AnyIn(rate_limit_indicators, error_str)
        THEN RateLimitError_init(
                 \* "Rate limited"
                 \* ". DuckDuckGo has temporarily blocked requests."
                 <<"R","a","t","e"," ","l","i","m","i","t","e","d">> \o qc \o <<"."," ","D","u","c","k","D","u","c","k","G","o"," ","h","a","s"," ","t","e","m","p","o","r","a","r","i","l","y"," ","b","l","o","c","k","e","d"," ","r","e","q","u","e","s","t","s",".">>,
                 None, None, None, None, Some(guidance_search_rate_limit))
        ELSE IF AnyIn(timeout_indicators, error_str)
        THEN MCPError_init("TimeoutError",
                 \* "Search timed out"
                 \* ". "
                 \* "The search took too long to complete."
                 <<"S","e","a","r","c","h"," ","t","i","m","e","d"," ","o","u","t">> \o qc \o bc \o <<"."," ">> \o <<"T","h","e"," ","s","e","a","r","c","h"," ","t","o","o","k"," ","t","o","o"," ","l","o","n","g"," ","t","o"," ","c","o","m","p","l","e","t","e",".">>,
                 None, None, Some(guidance_search_timeout))
        ELSE IF AnyIn(network_indicators, error_str)
        THEN MCPError_init("NetworkError",
                 \* "Network error"
                 \* ". Unable to connect to DuckDuckGo."
                 <<"N","e","t","w","o","r","k"," ","e","r","r","o","r">> \o qc \o <<"."," ","U","n","a","b","l","e"," ","t","o"," ","c","o","n","n","e","c","t"," ","t","o"," ","D","u","c","k","D","u","c","k","G","o",".">>,
                 None, None, Some(guidance_search_network))
        ELSE IF AnyIn(service_indicators, error_str)
        THEN ServiceUnavailableError_init(
                 \* "Service unavailable"
                 \* ". DuckDuckGo is temporarily unavailable."
                 <<"S","e","r","v","i","c","e"," ","u","n","a","v","a","i","l","a","b","l","e">> \o qc \o <<"."," ","D","u","c","k","D","u","c","k","G","o"," ","i","s"," ","t","e","m","p","o","r","a","r","i","l","y"," ","u","n","a","v","a","i","l","a","b","l","e",".">>,
                 None, None, None, Some(guidance_search_service))
        ELSE IF AnyIn(backend_indicators, error_str)
        THEN MCPError_init("NetworkError",
                 \* "Search backend error"
                 \* "."
                 <<"S","e","a","r","c","h"," ","b","a","c","k","e","n","d"," ","e","r","r","o","r">> \o qc \o bc \o <<".">>,
                 None, None, Some(guidance_search_backend))
        ELSE IF AnyIn(empty_indicators, error_str)
        THEN MCPError_init("NetworkError",
                 \* "No results returned"
                 \* "."
                 <<"N","o"," ","r","e","s","u","l","t","s"," ","r","e","t","u","r","n","e","d">> \o qc \o <<".">>,
                 None, None, Some(guidance_search_empty))
        ELSE MCPError_init("NetworkError",
                 \* "Search error"
                 \* ": "
                 <<"S","e","a","r","c","h"," ","e","r","r","o","r">> \o qc \o bc \o <<":"," ">> \o error_str,
                 None, None, Some(guidance_search_generic))

\* _classify_search_error(error, query, backend): the first keyword set with
\* an indicator occurring in the lower-cased error text decides
classify_search_error(error, query, backend) ==
    LET error_str == lower(str(error))
        qc == query_context(query)
        bc == backend_context(backend)
    IN  IF AnyIn(rate_limit_indicators, error_str)
        THEN RateLimitError_init(
                 \* "Rate limited"
                 \* ". DuckDuckGo has temporarily blocked requests."
                 <<"R","a","t","e"," ","l","i","m","i","t","e","d">> \o qc \o <<"."," ","D","u","c","k","D","u","c","k","G","o"," ","h","a","s"," ","t","e","m","p","o","r","a","r","i","l","y"," ","b","l","o","c","k","e","d"," ","r","e","q","u","e","s","t","s",".">>,
                 None, None, None, None, Some(guidance_search_rate_limit))
        ELSE IF AnyIn(timeout_indicators, error_str)
        THEN MCPError_init("TimeoutError",
                 \* "Search timed out"
                 \* ". "
                 \* "The search took too long to complete."
                 <<"S","e","a","r","c","h"," ","t","i","m","e","d"," ","o","u","t">> \o qc \o bc \o <<"."," ">> \o <<"T","h","e"," ","s","e","a","r","c","h"," ","t","o","o","k"," ","t","o","o"," ","l","o","n","g"," ","t","o"," ","c","o","m","p","l","e","t","e",".">>,
                 None, None, Some(guidance_search_timeout))
        ELSE IF AnyIn(network_indicators, error_str)
        THEN MCPError_init("NetworkError",
                 \* "Network error"
                 \* ". Unable to connect to DuckDuckGo."
                 <<"N","e","t","w","o","r","k"," ","e","r","r","o","r">> \o qc \o <<"."," ","U","n","a","b","l","e"," ","t","o"," ","c","o","n","n","e","c","t"," ","t","o"," ","D","u","c","k","D","u","c","k","G","o",".">>,
                 None, None, Some(guidance_search_network))
        ELSE IF AnyIn(service_indicators, error_str)
        THEN ServiceUnavailableError_init(
                 \* "Service unavailable"
                 \* ". DuckDuckGo is temporarily unavailable."
                 <<"S","e","r","v","i","c","e"," ","u","n","a","v","a","i","l","a","b","l","e">> \o qc \o <<"."," ","D","u","c","k","D","u","c","k","G","o"," ","i","s"," ","t","e","m","p","o","r","a","r","i","l","y"," ","u","n","a","v","a","i","l","a","b","l","e",".">>,
                 None, None, None, Some(guidance_search_service))
        ELSE IF AnyIn(backend_indicators, error_str)
        THEN MCPError_init("NetworkError",
                 \* "Search backend error"
                 \* "."
                 <<"S","e","a","r","c","h"," ","b","a","c","k","e","n","d"," ","e","r","r","o","r">> \o qc \o bc \o <<".">>,
                 None, None, Some(guidance_search_backend))
        ELSE IF AnyIn(empty_indicators, error_str)
        THEN MCPError_init("NetworkError",
                 \* "No results returned"
                 \* "."
                 <<"N","o"," ","r","e","s","u","l","t","s"," ","r","e","t","u","r","n","e","d">> \o qc \o <<".">>,
                 None, None, Some(guidance_search_empty))
        ELSE MCPError_init("NetworkError",
                 \* "Search error"
                 \* ": "
                 <<"S","e","a","r","c","h"," ","e","r","r","o","r">> \o qc \o bc \o <<":"," ">> \o str(error),
                 None, None, Some(guidance_search_generic))

---------------------------------------------------------------------------
(* Python values whose type the code tests.                                *)

PyStr(s) == [t |-> "str", s |-> s, n |-> 0]

PyInt(n) == [t |-> "int", s |-> <<>>, n |-> n]

PyNone == [t |-> "NoneType", s |-> <<>>, n |-> 0]

\* bool(x): empty text, zero and None are false
truthy(x) ==
    CASE x.t = "str" -> x.s /= <<>>
      [] x.t = "int" -> x.n /= 0
      [] OTHER -> FALSE

\* f"{x!r}" for an int, a str or None
repr(x) ==
    CASE x.t = "str" -> <<"'">> \o x.s \o <<"'">>
      [] x.t = "int" -> int_str(x.n)
      \* "None"
      [] OTHER -> <<"N","o","n","e">>

---------------------------------------------------------------------------
(* Search: result formatting, validation, primary call and fallback        *)
(* policy (duckduckgo_search.py).                                          *)

\* result.get(key, "") on a raw record whose fields are Optional
dict_get(field, default) == IF field /= None THEN field[1] ELSE default

\* _format_search_result(result)
format_search_result(result) ==
    [title   |-> dict_get(result.title, <<>>),
     url     |-> dict_get(result.href, <<>>),
     snippet |-> dict_get(result.body, <<>>)]

\* the call ddgs.text(...) that _execute_search makes
ddgs_text_call(query, region, safesearch, max_results, timeout, backend) ==
    [query |-> query, region |-> region, safesearch |-> safesearch,
     max_results |-> max_results, timeout |-> timeout, backend |-> backend]

\* _execute_search on a list of raw records the provider returned
execute_search_results(results) ==
    [i \in 1..Len(results) |-> format_search_result(results[i])]

\* "on"
\* "moderate"
\* "off"
valid_safesearch == << <<"o","n">>, <<"m","o","d","e","r","a","t","e">>, <<"o","f","f">> >>

\* the validator looking at max_results before the query
validate_search_params_max_results_first(query, max_results, safesearch) ==
    IF max_results.t /= "int" \/ max_results.n <= 0
    THEN [error |-> Some(MCPError_init("ValidationError",
                        \* "Invalid max_results value: "
                        <<"I","n","v","a","l","i","d"," ","m","a","x","_","r","e","s","u","l","t","s"," ","v","a","l","u","e",":"," ">> \o repr(max_results)
                            \* ". Must be a positive integer."
                            \o <<"."," ","M","u","s","t"," ","b","e"," ","a"," ","p","o","s","i","t","i","v","e"," ","i","n","t","e","g","e","r",".">>,
                        \* "The max_results parameter must be a positive integer:\n  BULLET Valid values: 1, 5, 10, 20, etc.\n  BULLET Default value is 5 if not specified\nExample: max_results=10"
                        None, None, Some(<<"T","h","e"," ","m","a","x","_","r","e","s","u","l","t","s"," ","p","a","r","a","m","e","t","e","r"," ","m","u","s","t"," ","b","e"," ","a"," ","p","o","s","i","t","i","v","e"," ","i","n","t","e","g","e","r",":","\n"," "," ","BULLET"," ","V","a","l","i","d"," ","v","a","l","u","e","s",":"," ","1",","," ","5",","," ","1","0",","," ","2","0",","," ","e","t","c",".","\n"," "," ","BULLET"," ","D","e","f","a","u","l","t"," ","v","a","l","u","e"," ","i","s"," ","5"," ","i","f"," ","n","o","t"," ","s","p","e","c","i","f","i","e","d","\n","E","x","a","m","p","l","e",":"," ","m","a","x","_","r","e","s","u","l","t","s","=","1","0">>))),
          safesearch |-> None]
    ELSE IF ~truthy(query) \/ query.t /= "str"
    THEN [error |-> Some(MCPError_init("ValidationError",
                        \* "Search query is required and must be a non-empty string."
                        <<"S","e","a","r","c","h"," ","q","u","e","r","y"," ","i","s"," ","r","e","q","u","i","r","e","d"," ","a","n","d"," ","m","u","s","t"," ","b","e"," ","a"," ","n","o","n","-","e","m","p","t","y"," ","s","t","r","i","n","g",".">>,
                        \* "Please provide a valid search query:\n  BULLET The query must be a text string\n  BULLET The query cannot be empty\nExample: 'python web scraping tutorial'"
                        None, None, Some(<<"P","l","e","a","s","e"," ","p","r","o","v","i","d","e"," ","a"," ","v","a","l","i","d"," ","s","e","a","r","c","h"," ","q","u","e","r","y",":","\n"," "," ","BULLET"," ","T","h","e"," ","q","u","e","r","y"," ","m","u","s","t"," ","b","e"," ","a"," ","t","e","x","t"," ","s","t","r","i","n","g","\n"," "," ","BULLET"," ","T","h","e"," ","q","u","e","r","y"," ","c","a","n","n","o","t"," ","b","e"," ","e","m","p","t","y","\n","E","x","a","m","p","l","e",":"," ","'","p","y","t","h","o","n"," ","w","e","b"," ","s","c","r","a","p","i","n","g"," ","t","u","t","o","r","i","a","l","'">>))),
          safesearch |-> None]
    ELSE IF ~(\E i \in 1..Len(valid_safesearch) : valid_safesearch[i] = safesearch)
    \* "moderate"
    THEN [error |-> None, safesearch |-> Some(<<"m","o","d","e","r","a","t","e">>)]
    ELSE [error |-> None, safesearch |-> Some(safesearch)]

\* the validator handing back a safesearch value it does not recognize
validate_search_params_unnormalized(query, max_results, safesearch) ==
    IF ~truthy(query) \/ query.t /= "str"
    THEN [error |-> Some(MCPError_init("ValidationError",
                        \* "Search query is required and must be a non-empty string."
                        <<"S","e","a","r","c","h"," ","q","u","e","r","y"," ","i","s"," ","r","e","q","u","i","r","e","d"," ","a","n","d"," ","m","u","s","t"," ","b","e"," ","a"," ","n","o","n","-","e","m","p","t","y"," ","s","t","r","i","n","g",".">>,
                        \* "Please provide a valid search query:\n  BULLET The query must be a text string\n  BULLET The query cannot be empty\nExample: 'python web scraping tutorial'"
                        None, None, Some(<<"P","l","e","a","s","e"," ","p","r","o","v","i","d","e"," ","a"," ","v","a","l","i","d"," ","s","e","a","r","c","h"," ","q","u","e","r","y",":","\n"," "," ","BULLET"," ","T","h","e"," ","q","u","e","r","y"," ","m","u","s","t"," ","b","e"," ","a"," ","t","e","x","t"," ","s","t","r","i","n","g","\n"," "," ","BULLET"," ","T","h","e"," ","q","u","e","r","y"," ","c","a","n","n","o","t"," ","b","e"," ","e","m","p","t","y","\n","E","x","a","m","p","l","e",":"," ","'","p","y","t","h","o","n"," ","w","e","b"," ","s","c","r","a","p","i","n","g"," ","t","u","t","o","r","i","a","l","'">>))),
          safesearch |-> None]
    ELSE IF max_results.t /= "int" \/ max_results.n <= 0
    THEN [error |-> Some(MCPError_init("ValidationError",
                        \* "Invalid max_results value: "
                        <<"I","n","v","a","l","i","d"," ","m","a","x","_","r","e","s","u","l","t","s"," ","v","a","l","u","e",":"," ">> \o repr(max_results)
                            \* ". Must be a positive integer."
                            \o <<"."," ","M","u","s","t"," ","b","e"," ","a"," ","p","o","s","i","t","i","v","e"," ","i","n","t","e","g","e","r",".">>,
                        \* "The max_results parameter must be a positive integer:\n  BULLET Valid values: 1, 5, 10, 20, etc.\n  BULLET Default value is 5 if not specified\nExample: max_results=10"
                        None, None, Some(<<"T","h","e"," ","m","a","x","_","r","e","s","u","l","t","s"," ","p","a","r","a","m","e","t","e","r"," ","m","u","s","t"," ","b","e"," ","a"," ","p","o","s","i","t","i","v","e"," ","i","n","t","e","g","e","r",":","\n"," "," ","BULLET"," ","V","a","l","i","d"," ","v","a","l","u","e","s",":"," ","1",","," ","5",","," ","1","0",","," ","2","0",","," ","e","t","c",".","\n"," "," ","BULLET"," ","D","e","f","a","u","l","t"," ","v","a","l","u","e"," ","i","s"," ","5"," ","i","f"," ","n","o","t"," ","s","p","e","c","i","f","i","e","d","\n","E","x","a","m","p","l","e",":"," ","m","a","x","_","r","e","s","u","l","t","s","=","1","0">>))),
          safesearch |-> None]
    ELSE IF ~(\E i \in 1..Len(valid_safesearch) : valid_safesearch[i] = safesearch)
    THEN [error |-> None, safesearch |-> Some(safesearch)]
    ELSE [error |-> None, safesearch |-> Some(safesearch)]

\* _validate_search_params(query, max_results, safesearch): the error it
\* raises, or the normalized safesearch value it returns
validate_search_params(query, max_results, safesearch) ==
    IF ~truthy(query) \/ query.t /= "str"
    THEN [error |-> Some(MCPError_init("ValidationError",
                        \* "Search query is required and must be a non-empty string."
                        <<"S","e","a","r","c","h"," ","q","u","e","r","y"," ","i","s"," ","r","e","q","u","i","r","e","d"," ","a","n","d"," ","m","u","s","t"," ","b","e"," ","a"," ","n","o","n","-","e","m","p","t","y"," ","s","t","r","i","n","g",".">>,
                        \* "Please provide a valid search query:\n  BULLET The query must be a text string\n  BULLET The query cannot be empty\nExample: 'python web scraping tutorial'"
                        None, None, Some(<<"P","l","e","a","s","e"," ","p","r","o","v","i","d","e"," ","a"," ","v","a","l","i","d"," ","s","e","a","r","c","h"," ","q","u","e","r","y",":","\n"," "," ","BULLET"," ","T","h","e"," ","q","u","e","r","y"," ","m","u","s","t"," ","b","e"," ","a"," ","t","e","x","t"," ","s","t","r","i","n","g","\n"," "," ","BULLET"," ","T","h","e"," ","q","u","e","r","y"," ","c","a","n","n","o","t"," ","b","e"," ","e","m","p","t","y","\n","E","x","a","m","p","l","e",":"," ","'","p","y","t","h","o","n"," ","w","e","b"," ","s","c","r","a","p","i","n","g"," ","t","u","t","o","r","i","a","l","'">>))),
          safesearch |-> None]
    ELSE IF max_results.t /= "int" \/ max_results.n <= 0
    THEN [error |-> Some(MCPError_init("ValidationError",
                        \* "Invalid max_results value: "
                        <<"I","n","v","a","l","i","d"," ","m","a","x","_","r","e","s","u","l","t","s"," ","v","a","l","u","e",":"," ">> \o repr(max_results)
                            \* ". Must be a positive integer."
                            \o <<"."," ","M","u","s","t"," ","b","e"," ","a"," ","p","o","s","i","t","i","v","e"," ","i","n","t","e","g","e","r",".">>,
                        \* "The max_results parameter must be a positive integer:\n  BULLET Valid values: 1, 5, 10, 20, etc.\n  BULLET Default value is 5 if not specified\nExample: max_results=10"
                        None, None, Some(<<"T","h","e"," ","m","a","x","_","r","e","s","u","l","t","s"," ","p","a","r","a","m","e","t","e","r"," ","m","u","s","t"," ","b","e"," ","a"," ","p","o","s","i","t","i","v","e"," ","i","n","t","e","g","e","r",":","\n"," "," ","BULLET"," ","V","a","l","i","d"," ","v","a","l","u","e","s",":"," ","1",","," ","5",","," ","1","0",","," ","2","0",","," ","e","t","c",".","\n"," "," ","BULLET"," ","D","e","f","a","u","l","t"," ","v","a","l","u","e"," ","i","s"," ","5"," ","i","f"," ","n","o","t"," ","s","p","e","c","i","f","i","e","d","\n","E","x","a","m","p","l","e",":"," ","m","a","x","_","r","e","s","u","l","t","s","=","1","0">>))),
          safesearch |-> None]
    ELSE IF ~(\E i \in 1..Len(valid_safesearch) : valid_safesearch[i] = safesearch)
    \* "moderate"
    THEN [error |-> None, safesearch |-> Some(<<"m","o","d","e","r","a","t","e">>)]
    ELSE [error |-> None, safesearch |-> Some(safesearch)]

guidance_both_backends ==
    \* "Both search backends failed. This could indicate:\n  BULLET DuckDuckGo may be experiencing widespread issues\n  BULLET Your network connection may be unstable\n  BULLET You may be rate limited across backends\nPlease try:\n  BULLET Waiting a few minutes before trying again\n  BULLET Checking your internet connection\n  BULLET Simplifying your search query"
    <<"B","o","t","h"," ","s","e","a","r","c","h"," ","b","a","c","k","e","n","d","s"," ","f","a","i","l","e","d","."," ","T","h","i","s"," ","c","o","u","l","d"," ","i","n","d","i","c","a","t","e",":","\n"," "," ","BULLET"," ","D","u","c","k","D","u","c","k","G","o"," ","m","a","y"," ","b","e"," ","e","x","p","e","r","i","e","n","c","i","n","g"," ","w","i","d","e","s","p","r","e","a","d"," ","i","s","s","u","e","s","\n"," "," ","BULLET"," ","Y","o","u","r"," ","n","e","t","w","o","r","k"," ","c","o","n","n","e","c","t","i","o","n"," ","m","a","y"," ","b","e"," ","u","n","s","t","a","b","l","e","\n"," "," ","BULLET"," ","Y","o","u"," ","m","a","y"," ","b","e"," ","r","a","t","e"," ","l","i","m","i","t","e","d"," ","a","c","r","o","s","s"," ","b","a","c","k","e","n","d","s","\n","P","l","e","a","s","e"," ","t","r","y",":","\n"," "," ","BULLET"," ","W","a","i","t","i","n","g"," ","a"," ","f","e","w"," ","m","i","n","u","t","e","s"," ","b","e","f","o","r","e"," ","t","r","y","i","n","g"," ","a","g","a","i","n","\n"," "," ","BULLET"," ","C","h","e","c","k","i","n","g"," ","y","o","u","r"," ","i","n","t","e","r","n","e","t"," ","c","o","n","n","e","c","t","i","o","n","\n"," "," ","BULLET"," ","S","i","m","p","l","i","f","y","i","n","g"," ","y","o","u","r"," ","s","e","a","r","c","h"," ","q","u","e","r","y">>

guidance_fallback_unexpected ==
    \* "An unexpected error occurred during search. Please:\n  BULLET Check your internet connection\n  BULLET Wait a moment and try again\n  BULLET Try a different search query\nIf the problem persists, DuckDuckGo may be experiencing issues."
    <<"A","n"," ","u","n","e","x","p","e","c","t","e","d"," ","e","r","r","o","r"," ","o","c","c","u","r","r","e","d"," ","d","u","r","i","n","g"," ","s","e","a","r","c","h","."," ","P","l","e","a","s","e",":","\n"," "," ","BULLET"," ","C","h","e","c","k"," ","y","o","u","r"," ","i","n","t","e","r","n","e","t"," ","c","o","n","n","e","c","t","i","o","n","\n"," "," ","BULLET"," ","W","a","i","t"," ","a"," ","m","o","m","e","n","t"," ","a","n","d"," ","t","r","y"," ","a","g","a","i","n","\n"," "," ","BULLET"," ","T","r","y"," ","a"," ","d","i","f","f","e","r","e","n","t"," ","s","e","a","r","c","h"," ","q","u","e","r","y","\n","I","f"," ","t","h","e"," ","p","r","o","b","l","e","m"," ","p","e","r","s","i","s","t","s",","," ","D","u","c","k","D","u","c","k","G","o"," ","m","a","y"," ","b","e"," ","e","x","p","e","r","i","e","n","c","i","n","g"," ","i","s","s","u","e","s",".">>

\* the backend search_duckduckgo calls first
\* "duckduckgo"
PRIMARY_BACKEND == <<"d","u","c","k","d","u","c","k","g","o">>

\* a retry against the backend that has just failed
\* "duckduckgo"
FALLBACK_BACKEND_same == <<"d","u","c","k","d","u","c","k","g","o">>

\* the alternate backend _try_fallback_search retries with
\* "brave"
FALLBACK_BACKEND == <<"b","r","a","v","e">>

\* the gate without its rate-limit test
fallback_skipped_no_rate_limit(original_error) ==
    \* "backend"
    Contains(lower(original_error.message), <<"b","a","c","k","e","n","d">>)

\* the gate with a case-sensitive test of the message
fallback_skipped_case_sensitive(original_error) ==
    \/ isinstance(original_error, "RateLimitError")
    \* "backend"
    \/ Contains(original_error.message, <<"b","a","c","k","e","n","d">>)

\* the gate looking for the backend context only
fallback_skipped_backend_context_only(original_error) ==
    \/ isinstance(original_error, "RateLimitError")
    \* " using backend '"
    \/ Contains(lower(original_error.message), <<" ","u","s","i","n","g"," ","b","a","c","k","e","n","d"," ","'">>)

\* _try_fallback_search, before the retry: TRUE when original_error is
\* re-raised without a call
fallback_skipped(original_error) ==
    \/ isinstance(original_error, "RateLimitError")
    \* "backend"
    \/ Contains(lower(original_error.message), <<"b","a","c","k","e","n","d">>)

\* the combined error with the fallback failure classified as a failure of
\* the primary backend
fallback_combined_error_primary_context(original_error, fallback_e, query) ==
    LET fallback_error == classify_search_error(fallback_e, query, Some(PRIMARY_BACKEND))
    IN  MCPError_init("NetworkError",
            \* "Search failed with both backends. "
            <<"S","e","a","r","c","h"," ","f","a","i","l","e","d"," ","w","i","t","h"," ","b","o","t","h"," ","b","a","c","k","e","n","d","s","."," ">>
            \* "Primary (duckduckgo): "
            \* ". "
            \o <<"P","r","i","m","a","r","y"," ","(","d","u","c","k","d","u","c","k","g","o",")",":"," ">> \o original_error.message \o <<"."," ">>
            \* "Fallback (brave): "
            \o <<"F","a","l","l","b","a","c","k"," ","(","b","r","a","v","e",")",":"," ">> \o fallback_error.message,
            None, None, Some(guidance_both_backends))

\* _try_fallback_search, the except DDGSException handler
fallback_combined_error(original_error, fallback_e, query) ==
    LET fallback_error == classify_search_error(fallback_e, query, Some(FALLBACK_BACKEND))
    IN  MCPError_init("NetworkError",
            \* "Search failed with both backends. "
            <<"S","e","a","r","c","h"," ","f","a","i","l","e","d"," ","w","i","t","h"," ","b","o","t","h"," ","b","a","c","k","e","n","d","s","."," ">>
            \* "Primary (duckduckgo): "
            \* ". "
            \o <<"P","r","i","m","a","r","y"," ","(","d","u","c","k","d","u","c","k","g","o",")",":"," ">> \o original_error.message \o <<"."," ">>
            \* "Fallback (brave): "
            \o <<"F","a","l","l","b","a","c","k"," ","(","b","r","a","v","e",")",":"," ">> \o fallback_error.message,
            None, None, Some(guidance_both_backends))

\* the unexpected-failure handler raising the combined error of the
\* DDGSException handler
fallback_unexpected_error_as_combined(original_error, fallback_e, query) ==
    fallback_combined_error(original_error, fallback_e, query)

\* _try_fallback_search, the except Exception handler
fallback_unexpected_error(original_error, fallback_e, query) ==
    MCPError_init("NetworkError",
        \* "Search failed unexpectedly. "
        <<"S","e","a","r","c","h"," ","f","a","i","l","e","d"," ","u","n","e","x","p","e","c","t","e","d","l","y","."," ">>
        \* "Primary error: "
        \* ". "
        \o <<"P","r","i","m","a","r","y"," ","e","r","r","o","r",":"," ">> \o original_error.message \o <<"."," ">>
        \* "Fallback error: "
        \o <<"F","a","l","l","b","a","c","k"," ","e","r","r","o","r",":"," ">> \o str(fallback_e),
        None, None, Some(guidance_fallback_unexpected))

\* what an invocation has produced so far
Pending == [kind |-> "pending", value |-> None, error |-> None]

Returned(v) == [kind |-> "returned", value |-> Some(v), error |-> None]

Raised(e) == [kind |-> "raised", value |-> None, error |-> Some(e)]

\* what the provider does on one ddgs.text call
SearchReturns(results) == [kind |-> "return", results |-> results, exc |-> None]

SearchRaises(exc) == [kind |-> "raise", results |-> <<>>, exc |-> Some(exc)]

\* a step of a handler: the calls it made, where it stands, its locals if
\* it is suspended at a call, what it produced, and the error it entered
\* the fallback policy with
Step(made, at, locals, result, entered) ==
    [made |-> made, pc |-> at, frame |-> locals, outcome |-> result,
     policy |-> entered]

\* the query as the classifier's f-string sees it
query_text(query) == IF query.t = "str" THEN Some(query.s) ELSE None

\* _try_fallback_search up to the retry: re-raise original_error, or go on
\* to call the alternate backend with the arguments it was given
try_fallback_search_begin(query, region, safesearch, max_results, timeout, original_error) ==
    IF fallback_skipped(original_error)
    THEN Step(<<>>, "done", None, Raised(original_error), Some(original_error))
    ELSE Step(<<>>, "fallback",
              Some([query |-> query, region |-> region, safesearch |-> safesearch,
                    max_results |-> max_results, timeout |-> timeout,
                    original_error |-> original_error]),
              Pending, Some(original_error))

\* the retry repeated after a failure of the alternate backend
try_fallback_search_retry_again(f, resp) ==
    LET call == ddgs_text_call(f.query, f.region, f.safesearch, f.max_results,
                               f.timeout, FALLBACK_BACKEND)
    IN  IF resp.kind = "return"
        THEN Step(<<call>>, "done", None, Returned(execute_search_results(resp.results)),
                  Some(f.original_error))
        ELSE IF resp.exc[1].type = "DDGSException"
        THEN Step(<<call>>, "fallback", Some(f), Pending, Some(f.original_error))
        ELSE Step(<<call>>, "done", None,
                  Raised(fallback_unexpected_error(f.original_error, resp.exc[1],
                                                   query_text(f.query))),
                  Some(f.original_error))

\* _try_fallback_search from the retry on: the call to "brave" and the
\* handling of what it does
try_fallback_search_retry(f, resp) ==
    LET call == ddgs_text_call(f.query, f.region, f.safesearch, f.max_results,
                               f.timeout, FALLBACK_BACKEND)
    IN  IF resp.kind = "return"
        THEN Step(<<call>>, "done", None, Returned(execute_search_results(resp.results)),
                  Some(f.original_error))
        ELSE IF resp.exc[1].type = "DDGSException"
        THEN Step(<<call>>, "done", None,
                  Raised(fallback_combined_error(f.original_error, resp.exc[1],
                                                 query_text(f.query))),
                  Some(f.original_error))
        ELSE Step(<<call>>, "done", None,
                  Raised(fallback_unexpected_error(f.original_error, resp.exc[1],
                                                   query_text(f.query))),
                  Some(f.original_error))

\* the search calling the provider before it looks at the validation
search_duckduckgo_call_first(query, max_results, safesearch, region, timeout, resp) ==
    LET v == validate_search_params(query, max_results, safesearch)
    IN  IF v.error /= None
        THEN Step(<<ddgs_text_call(query, region, safesearch, max_results, timeout,
                                  PRIMARY_BACKEND)>>,
                  "done", None, Raised(v.error[1]), None)
        ELSE
          LET call == ddgs_text_call(query, region, v.safesearch[1], max_results,
                                     timeout, PRIMARY_BACKEND)
          IN  IF resp.kind = "return"
              THEN Step(<<call>>, "done", None,
                        Returned(execute_search_results(resp.results)), None)
              ELSE IF resp.exc[1].type = "DDGSException"
              THEN LET classified_error ==
                           classify_search_error(resp.exc[1], query_text(query),
                                                 Some(PRIMARY_BACKEND))
                       t == try_fallback_search_begin(query, region, v.safesearch[1],
                                                      max_results, timeout,
                                                      classified_error)
                   IN  Step(<<call>>, t.pc, t.frame, t.outcome, t.policy)
              ELSE IF resp.exc[1].type = "MCPError"
              THEN Step(<<call>>, "done", None, Raised(resp.exc[1].err[1]), None)
              ELSE Step(<<call>>, "done", None,
                        Raised(classify_search_error(resp.exc[1], query_text(query),
                                                     Some(PRIMARY_BACKEND))),
                        None)

\* a search that hands every exception outside the taxonomy to the fallback
\* policy
search_duckduckgo_any_exception(query, max_results, safesearch, region, timeout, resp) ==
    LET v == validate_search_params(query, max_results, safesearch)
    IN  IF v.error /= None
        THEN Step(<<>>, "done", None, Raised(v.error[1]), None)
        ELSE
          LET call == ddgs_text_call(query, region, v.safesearch[1], max_results,
                                     timeout, PRIMARY_BACKEND)
          IN  IF resp.kind = "return"
              THEN Step(<<call>>, "done", None,
                        Returned(execute_search_results(resp.results)), None)
              ELSE IF resp.exc[1].type = "MCPError"
              THEN Step(<<call>>, "done", None, Raised(resp.exc[1].err[1]), None)
              ELSE LET classified_error ==
                           classify_search_error(resp.exc[1], query_text(query),
                                                 Some(PRIMARY_BACKEND))
                       t == try_fallback_search_begin(query, region, v.safesearch[1],
                                                      max_results, timeout,
                                                      classified_error)
                   IN  Step(<<call>>, t.pc, t.frame, t.outcome, t.policy)

\* search_duckduckgo up to the point where it returns, raises or is
\* suspended at the fallback call; resp is what the primary call does
search_duckduckgo(query, max_results, safesearch, region, timeout, resp) ==
    LET v == validate_search_params(query, max_results, safesearch)
    IN  IF v.error /= None
        THEN Step(<<>>, "done", None, Raised(v.error[1]), None)
        ELSE
          LET call == ddgs_text_call(query, region, v.safesearch[1], max_results,
                                     timeout, PRIMARY_BACKEND)
          IN  IF resp.kind = "return"
              THEN Step(<<call>>, "done", None,
                        Returned(execute_search_results(resp.results)), None)
              ELSE IF resp.exc[1].type = "DDGSException"
              THEN LET classified_error ==
                           classify_search_error(resp.exc[1], query_text(query),
                                                 Some(PRIMARY_BACKEND))
                       t == try_fallback_search_begin(query, region, v.safesearch[1],
                                                      max_results, timeout,
                                                      classified_error)
                   IN  Step(<<call>>, t.pc, t.frame, t.outcome, t.policy)
              ELSE IF resp.exc[1].type = "MCPError"
              THEN Step(<<call>>, "done", None, Raised(resp.exc[1].err[1]), None)
              ELSE Step(<<call>>, "done", None,
                        Raised(classify_search_error(resp.exc[1], query_text(query),
                                                     Some(PRIMARY_BACKEND))),
                        None)

---------------------------------------------------------------------------
(* The inputs the model draws from.                                        *)

\* how many fragments an upstream error text is made of, at most
MaxFrags == 2

\* how many fragments the error text of the fallback call is made of, at most
MaxFallbackFrags == 1

\* how many raw records the provider returns, at most
MaxRaw == 2

\* pieces of upstream error texts: one for each keyword set of the
\* classifier (the first one hits two sets), and one that hits none
ErrorFragments ==
    \* "temporarily blocked"
    \* "Timed out"
    \* "Connection"
    \* "503"
    { <<"t","e","m","p","o","r","a","r","i","l","y"," ","b","l","o","c","k","e","d">>, <<"T","i","m","e","d"," ","o","u","t">>, <<"C","o","n","n","e","c","t","i","o","n">>, <<"5","0","3">>,
      \* "Backend"
      \* "no results"
      \* "Oops"
      <<"B","a","c","k","e","n","d">>, <<"n","o"," ","r","e","s","u","l","t","s">>, <<"O","o","p","s">> }

\* the texts made of at most n fragments, joined by a space
RECURSIVE TextsOf(_)
TextsOf(n) ==
    IF n = 0 THEN {<<>>}
    ELSE LET shorter == TextsOf(n - 1)
         IN  shorter \cup {IF t = <<>> THEN f ELSE t \o <<" ">> \o f :
                              t \in shorter, f \in ErrorFragments}

ErrorTexts == TextsOf(MaxFrags)

\* the texts of exceptions that are not of the search library's type
UnexpectedTexts == TextsOf(1)

\* taxonomy errors a provider call is made to raise
RaisedTaxonomyErrors ==
    \* "Already validated error"
    {MCPError_init("ValidationError", <<"A","l","r","e","a","d","y"," ","v","a","l","i","d","a","t","e","d"," ","e","r","r","o","r">>, None, None, None),
     \* "Rate limited"
     RateLimitError_init(<<"R","a","t","e"," ","l","i","m","i","t","e","d">>, Some(7), None, None, None, None)}

\* the exceptions a provider call raises: of the search library's type with
\* one of the given texts, of another type, or a taxonomy error
SearchExceptions(texts) ==
    {[type |-> "DDGSException", text |-> t, err |-> None] : t \in texts}
    \cup {[type |-> "RuntimeError", text |-> t, err |-> None] : t \in UnexpectedTexts}
    \cup {[type |-> "MCPError", text |-> e.message, err |-> Some(e)] :
             e \in RaisedTaxonomyErrors}

RawRecords ==
    \* "T"
    \* "u"
    \* "b"
    {[title |-> Some(<<"T">>), href |-> Some(<<"u">>), body |-> Some(<<"b">>)],
     \* "v"
     [title |-> None, href |-> Some(<<"v">>), body |-> None]}

RECURSIVE RawListsOf(_)
RawListsOf(n) ==
    IF n = 0 THEN {<<>>}
    ELSE LET shorter == RawListsOf(n - 1)
         IN  shorter \cup {Append(l, r) : l \in shorter, r \in RawRecords}

\* what the primary call does
SearchResponses ==
    {SearchReturns(l) : l \in RawListsOf(MaxRaw)}
    \cup {SearchRaises(e) : e \in SearchExceptions(ErrorTexts)}

\* what the fallback call does
FallbackResponses ==
    {SearchReturns(l) : l \in RawListsOf(MaxRaw)}
    \cup {SearchRaises(e) : e \in SearchExceptions(TextsOf(MaxFallbackFrags))}

SearchArgs ==
    {[query |-> q, max_results |-> m, safesearch |-> s, region |-> rt.region,
      timeout |-> rt.timeout] :
        \* "cats"
        \* "My Backend"
        q \in {PyStr(<<"c","a","t","s">>), PyStr(<<"M","y"," ","B","a","c","k","e","n","d">>), PyStr(<<>>), PyNone},
        \* "5"
        m \in {PyInt(2), PyInt(0), PyStr(<<"5">>)},
        \* "off"
        \* "ON"
        s \in { <<"o","f","f">>, <<"O","N">> },
        \* "wt-wt"
        rt \in {[region |-> <<"w","t","-","w","t">>, timeout |-> 15],
                \* "us-en"
                [region |-> <<"u","s","-","e","n">>, timeout |-> 5]}}

\* classified errors handed straight to the fallback policy
PolicyErrors ==
    \* "Rate limited"
    {RateLimitError_init(<<"R","a","t","e"," ","l","i","m","i","t","e","d">>, None, None, None, None, None),
     \* "Backend search error"
     MCPError_init("NetworkError", <<"B","a","c","k","e","n","d"," ","s","e","a","r","c","h"," ","e","r","r","o","r">>, None, None, None),
     \* "Primary search failed"
     MCPError_init("NetworkError", <<"P","r","i","m","a","r","y"," ","s","e","a","r","c","h"," ","f","a","i","l","e","d">>, None, None, None),
     \* "Search timed out"
     MCPError_init("TimeoutError", <<"S","e","a","r","c","h"," ","t","i","m","e","d"," ","o","u","t">>, None, None, None)}

PolicyArgs ==
    \* "test"
    \* "moderate"
    {[query |-> PyStr(<<"t","e","s","t">>), max_results |-> PyInt(5), safesearch |-> <<"m","o","d","e","r","a","t","e">>,
      region |-> rt.region, timeout |-> rt.timeout, original_error |-> e] :
        \* "wt-wt"
        rt \in {[region |-> <<"w","t","-","w","t">>, timeout |-> 15],
                \* "us-en"
                [region |-> <<"u","s","-","e","n">>, timeout |-> 5]},
        e \in PolicyErrors}

---------------------------------------------------------------------------
(* The search state machine.                                               *)

Take(s) ==
    /\ pc' = s.pc
    /\ frame' = s.frame
    /\ policy' = s.policy
    /\ outcome' = s.outcome

Begin(o, a) ==
    /\ op = o
    /\ args = a
    /\ pc = "start"
    /\ calls = <<>>
    /\ upstream = <<>>
    /\ frame = None
    /\ policy = None
    /\ outcome = Pending

SearchInit == \E a \in SearchArgs : Begin("search", a)

PolicyInit == \E a \in PolicyArgs : Begin("try_fallback", a)

\* search_duckduckgo(query, max_results, safesearch, region, timeout)
SearchPrimary ==
    /\ op = "search"
    /\ pc = "start"
    /\ \E resp \in SearchResponses :
         \E s \in {search_duckduckgo(args.query, args.max_results, args.safesearch,
                                     args.region, args.timeout, resp)} :
             /\ Take(s)
             /\ calls' = calls \o s.made
             /\ upstream' = IF s.made = <<>> THEN upstream ELSE Append(upstream, resp)
    /\ UNCHANGED <<op, args>>

\* _try_fallback_search(query, region, safesearch, max_results, timeout,
\* original_error) called on its own
TryFallbackBegin ==
    /\ op = "try_fallback"
    /\ pc = "start"
    /\ Take(try_fallback_search_begin(args.query, args.region, args.safesearch,
                                      args.max_results, args.timeout,
                                      args.original_error))
    /\ UNCHANGED <<op, args, calls, upstream>>

\* the retry of _try_fallback_search against the alternate backend
TryFallbackRetry ==
    /\ op \in {"search", "try_fallback"}
    /\ pc = "fallback"
    /\ \E resp \in FallbackResponses :
         \E s \in {try_fallback_search_retry(frame[1], resp)} :
             /\ Take(s)
             /\ calls' = calls \o s.made
             /\ upstream' = Append(upstream, resp)
    /\ UNCHANGED <<op, args>>

InitSearch == SearchInit \/ PolicyInit

NextSearch == SearchPrimary \/ TryFallbackBegin \/ TryFallbackRetry

SpecSearch == InitSearch /\ [][NextSearch]_vars

---------------------------------------------------------------------------
(* The search classifier on its own: every exception, with and without     *)
(* query and backend context.                                              *)

ClassifyArgs ==
    [error : SearchExceptions(ErrorTexts),
     \* "cats"
     \* "My Backend"
     query : {None, Some(<<>>), Some(<<"c","a","t","s">>), Some(<<"M","y"," ","B","a","c","k","e","n","d">>)},
     backend : {None, Some(PRIMARY_BACKEND), Some(FALLBACK_BACKEND)}]

ClassifyInit == \E a \in ClassifyArgs : Begin("classify_search_error", a)

\* _classify_search_error(error, query, backend)
ClassifySearchError ==
    /\ op = "classify_search_error"
    /\ pc = "start"
    /\ pc' = "done"
    /\ outcome' = Returned(classify_search_error(args.error, args.query, args.backend))
    /\ UNCHANGED <<op, args, calls, upstream, frame, policy>>

SpecClassifySearch == ClassifyInit /\ [][ClassifySearchError]_vars

---------------------------------------------------------------------------
(* The fetch classifier (jina_fetch.py) and the exceptions of the HTTP     *)
(* client it classifies.                                                   *)

\* the direct bases of the exception classes of requests.exceptions
RequestsBases(cls) ==
    CASE cls = "HTTPError"        -> {"RequestException"}
      [] cls = "ConnectionError"  -> {"RequestException"}
      [] cls = "ProxyError"       -> {"ConnectionError"}
      [] cls = "SSLError"         -> {"ConnectionError"}
      [] cls = "Timeout"          -> {"RequestException"}
      [] cls = "ConnectTimeout"   -> {"ConnectionError", "Timeout"}
      [] cls = "ReadTimeout"      -> {"Timeout"}
      [] cls = "TooManyRedirects" -> {"RequestException"}
      [] cls = "InvalidJSONError" -> {"RequestException"}
      [] cls = "JSONDecodeError"  -> {"InvalidJSONError", "json.JSONDecodeError"}
      [] OTHER                    -> {}

RECURSIVE requests_subclass(_, _)
requests_subclass(cls, base) ==
    \/ cls = base
    \/ \E b \in RequestsBases(cls) : requests_subclass(b, base)

\* isinstance(error, requests.exceptions.<cls>)
requests_isinstance(error, cls) == requests_subclass(error.type, cls)

\* an exception of the HTTP client: its class, its text and the response
\* attached to it, if any
RequestError(type, text, response) ==
    [type |-> type, text |-> text, response |-> response]

\* a response: status, reason phrase, Retry-After header, body as text and
\* as response.json() gives it (None if the body is not JSON; decode_error
\* is then the class of the exception response.json() raises)
Response(status_code, reason, retry_after_header, text, json, decode_error) ==
    [status_code |-> status_code, reason |-> reason,
     retry_after_header |-> retry_after_header, text |-> text, json |-> json,
     decode_error |-> decode_error]

Whitespace == {" ", "\t", "\n", "\r"}

RECURSIVE lstrip(_)
lstrip(s) == IF s /= <<>> /\ Head(s) \in Whitespace THEN lstrip(Tail(s)) ELSE s

RECURSIVE rstrip(_)
rstrip(s) ==
    IF s /= <<>> /\ s[Len(s)] \in Whitespace
    THEN rstrip(SubSeq(s, 1, Len(s) - 1)) ELSE s

\* str.strip()
strip(s) == lstrip(rstrip(s))

DigitValue(c) == (CHOOSE i \in 1..Len(Digits) : Digits[i] = c) - 1

IsDigit(c) == \E i \in 1..Len(Digits) : Digits[i] = c

RECURSIVE digits_value(_)
digits_value(s) ==
    IF s = <<>> THEN 0
    ELSE 10 * digits_value(SubSeq(s, 1, Len(s) - 1)) + DigitValue(s[Len(s)])

\* int(s) on a string: the integer, or None where Python raises ValueError
\* (surrounding whitespace and one sign are accepted)
int_of_str(s) ==
    LET t == strip(s)
        signed == t /= <<>> /\ Head(t) \in {"+", "-"}
        d == IF signed THEN Tail(t) ELSE t
    IN  IF d = <<>> \/ \E i \in 1..Len(d) : ~IsDigit(d[i]) THEN None
        ELSE IF signed /\ Head(t) = "-" THEN Some(0 - digits_value(d))
        ELSE Some(digits_value(d))

\* f" for URL: {url}" if url else ""
url_context(url) ==
    \* " for URL: "
    IF url /= None /\ url[1] /= <<>> THEN <<" ","f","o","r"," ","U","R","L",":"," ">> \o url[1] ELSE <<>>

dns_indicators ==
    \* "nodename nor servname provided"
    \* "name or service not known"
    << <<"n","o","d","e","n","a","m","e"," ","n","o","r"," ","s","e","r","v","n","a","m","e"," ","p","r","o","v","i","d","e","d">>, <<"n","a","m","e"," ","o","r"," ","s","e","r","v","i","c","e"," ","n","o","t"," ","k","n","o","w","n">>,
       \* "getaddrinfo failed"
       \* "failed to resolve"
       \* "dns"
       <<"g","e","t","a","d","d","r","i","n","f","o"," ","f","a","i","l","e","d">>, <<"f","a","i","l","e","d"," ","t","o"," ","r","e","s","o","l","v","e">>, <<"d","n","s">>,
       \* "temporary failure in name resolution"
       <<"t","e","m","p","o","r","a","r","y"," ","f","a","i","l","u","r","e"," ","i","n"," ","n","a","m","e"," ","r","e","s","o","l","u","t","i","o","n">> >>

guidance_fetch_ssl ==
    \* "There was a problem with the secure connection. This could mean:\n  BULLET The server's SSL certificate is invalid or expired\n  BULLET There's a certificate chain issue\n  BULLET A proxy or firewall is interfering with the connection\nVerify the URL uses a valid SSL certificate."
    <<"T","h","e","r","e"," ","w","a","s"," ","a"," ","p","r","o","b","l","e","m"," ","w","i","t","h"," ","t","h","e"," ","s","e","c","u","r","e"," ","c","o","n","n","e","c","t","i","o","n","."," ","T","h","i","s"," ","c","o","u","l","d"," ","m","e","a","n",":","\n"," "," ","BULLET"," ","T","h","e"," ","s","e","r","v","e","r","'","s"," ","S","S","L"," ","c","e","r","t","i","f","i","c","a","t","e"," ","i","s"," ","i","n","v","a","l","i","d"," ","o","r"," ","e","x","p","i","r","e","d","\n"," "," ","BULLET"," ","T","h","e","r","e","'","s"," ","a"," ","c","e","r","t","i","f","i","c","a","t","e"," ","c","h","a","i","n"," ","i","s","s","u","e","\n"," "," ","BULLET"," ","A"," ","p","r","o","x","y"," ","o","r"," ","f","i","r","e","w","a","l","l"," ","i","s"," ","i","n","t","e","r","f","e","r","i","n","g"," ","w","i","t","h"," ","t","h","e"," ","c","o","n","n","e","c","t","i","o","n","\n","V","e","r","i","f","y"," ","t","h","e"," ","U","R","L"," ","u","s","e","s"," ","a"," ","v","a","l","i","d"," ","S","S","L"," ","c","e","r","t","i","f","i","c","a","t","e",".">>

guidance_fetch_404 ==
    \* "The URL may be incorrect or the page may have been removed.\n  BULLET Verify the URL is correct\n  BULLET Check if the page has moved to a new location\n  BULLET Ensure the resource still exists"
    <<"T","h","e"," ","U","R","L"," ","m","a","y"," ","b","e"," ","i","n","c","o","r","r","e","c","t"," ","o","r"," ","t","h","e"," ","p","a","g","e"," ","m","a","y"," ","h","a","v","e"," ","b","e","e","n"," ","r","e","m","o","v","e","d",".","\n"," "," ","BULLET"," ","V","e","r","i","f","y"," ","t","h","e"," ","U","R","L"," ","i","s"," ","c","o","r","r","e","c","t","\n"," "," ","BULLET"," ","C","h","e","c","k"," ","i","f"," ","t","h","e"," ","p","a","g","e"," ","h","a","s"," ","m","o","v","e","d"," ","t","o"," ","a"," ","n","e","w"," ","l","o","c","a","t","i","o","n","\n"," "," ","BULLET"," ","E","n","s","u","r","e"," ","t","h","e"," ","r","e","s","o","u","r","c","e"," ","s","t","i","l","l"," ","e","x","i","s","t","s">>

guidance_fetch_403 ==
    \* "The server refused to grant access. This could mean:\n  BULLET The resource requires authentication\n  BULLET Your IP may be blocked\n  BULLET The site restricts automated access\nTry accessing the URL directly in a browser to verify."
    <<"T","h","e"," ","s","e","r","v","e","r"," ","r","e","f","u","s","e","d"," ","t","o"," ","g","r","a","n","t"," ","a","c","c","e","s","s","."," ","T","h","i","s"," ","c","o","u","l","d"," ","m","e","a","n",":","\n"," "," ","BULLET"," ","T","h","e"," ","r","e","s","o","u","r","c","e"," ","r","e","q","u","i","r","e","s"," ","a","u","t","h","e","n","t","i","c","a","t","i","o","n","\n"," "," ","BULLET"," ","Y","o","u","r"," ","I","P"," ","m","a","y"," ","b","e"," ","b","l","o","c","k","e","d","\n"," "," ","BULLET"," ","T","h","e"," ","s","i","t","e"," ","r","e","s","t","r","i","c","t","s"," ","a","u","t","o","m","a","t","e","d"," ","a","c","c","e","s","s","\n","T","r","y"," ","a","c","c","e","s","s","i","n","g"," ","t","h","e"," ","U","R","L"," ","d","i","r","e","c","t","l","y"," ","i","n"," ","a"," ","b","r","o","w","s","e","r"," ","t","o"," ","v","e","r","i","f","y",".">>

guidance_fetch_5xx ==
    \* "The server experienced an error while processing the request.\n  BULLET Wait a few moments and try again\n  BULLET The issue is on the server side, not your request\n  BULLET Check if the service has a status page for outage information"
    <<"T","h","e"," ","s","e","r","v","e","r"," ","e","x","p","e","r","i","e","n","c","e","d"," ","a","n"," ","e","r","r","o","r"," ","w","h","i","l","e"," ","p","r","o","c","e","s","s","i","n","g"," ","t","h","e"," ","r","e","q","u","e","s","t",".","\n"," "," ","BULLET"," ","W","a","i","t"," ","a"," ","f","e","w"," ","m","o","m","e","n","t","s"," ","a","n","d"," ","t","r","y"," ","a","g","a","i","n","\n"," "," ","BULLET"," ","T","h","e"," ","i","s","s","u","e"," ","i","s"," ","o","n"," ","t","h","e"," ","s","e","r","v","e","r"," ","s","i","d","e",","," ","n","o","t"," ","y","o","u","r"," ","r","e","q","u","e","s","t","\n"," "," ","BULLET"," ","C","h","e","c","k"," ","i","f"," ","t","h","e"," ","s","e","r","v","i","c","e"," ","h","a","s"," ","a"," ","s","t","a","t","u","s"," ","p","a","g","e"," ","f","o","r"," ","o","u","t","a","g","e"," ","i","n","f","o","r","m","a","t","i","o","n">>

guidance_fetch_generic ==
    \* "An unexpected network error occurred. Please:\n  BULLET Check your internet connection\n  BULLET Verify the URL is correct\n  BULLET Try again in a few moments"
    <<"A","n"," ","u","n","e","x","p","e","c","t","e","d"," ","n","e","t","w","o","r","k"," ","e","r","r","o","r"," ","o","c","c","u","r","r","e","d","."," ","P","l","e","a","s","e",":","\n"," "," ","BULLET"," ","C","h","e","c","k"," ","y","o","u","r"," ","i","n","t","e","r","n","e","t"," ","c","o","n","n","e","c","t","i","o","n","\n"," "," ","BULLET"," ","V","e","r","i","f","y"," ","t","h","e"," ","U","R","L"," ","i","s"," ","c","o","r","r","e","c","t","\n"," "," ","BULLET"," ","T","r","y"," ","a","g","a","i","n"," ","i","n"," ","a"," ","f","e","w"," ","m","o","m","e","n","t","s">>

\* str(status_code) in an f-string: "None" when there is no response
status_text(status_code) ==
    \* "None"
    IF status_code = None THEN <<"N","o","n","e">> ELSE int_str(status_code[1])

\* the Retry-After header never read
retry_after_of_unread(response) == None

\* the Retry-After header of a 429 response as an integer, if it is one
retry_after_of(response) ==
    IF response = None THEN None
    ELSE LET retry_after_header == response[1].retry_after_header
         IN  IF retry_after_header /= None /\ retry_after_header[1] /= <<>>
             THEN int_of_str(retry_after_header[1])
             ELSE None

\* the HTTPError branch without its test for status 503
classify_http_error_no_503(error, url) ==
    LET response == error.response
        status_code == IF response /= None THEN Some(response[1].status_code) ELSE None
    IN  IF status_code = Some(429)
        THEN RateLimitError_init(
                 \* "Rate limited"
                 <<"R","a","t","e"," ","l","i","m","i","t","e","d">> \o url_context(url)
                 \* ". Too many requests to the service."
                 \o <<"."," ","T","o","o"," ","m","a","n","y"," ","r","e","q","u","e","s","t","s"," ","t","o"," ","t","h","e"," ","s","e","r","v","i","c","e",".">>,
                 retry_after_of(response), status_code, None, None, None)
        ELSE IF status_code = Some(404)
        THEN HTTPError_init("HTTPError",
                 \* "Not found"
                 <<"N","o","t"," ","f","o","u","n","d">> \o url_context(url)
                 \* ". The requested resource does not exist."
                 \o <<"."," ","T","h","e"," ","r","e","q","u","e","s","t","e","d"," ","r","e","s","o","u","r","c","e"," ","d","o","e","s"," ","n","o","t"," ","e","x","i","s","t",".">>,
                 status_code, None, None, Some(guidance_fetch_404))
        ELSE IF status_code = Some(403)
        THEN HTTPError_init("HTTPError",
                 \* "Access forbidden"
                 <<"A","c","c","e","s","s"," ","f","o","r","b","i","d","d","e","n">> \o url_context(url)
                 \* ". You don't have permission to access this resource."
                 \o <<"."," ","Y","o","u"," ","d","o","n","'","t"," ","h","a","v","e"," ","p","e","r","m","i","s","s","i","o","n"," ","t","o"," ","a","c","c","e","s","s"," ","t","h","i","s"," ","r","e","s","o","u","r","c","e",".">>,
                 status_code, None, None, Some(guidance_fetch_403))
        ELSE IF status_code /= None /\ status_code[1] /= 0
                /\ 500 <= status_code[1] /\ status_code[1] < 600
        THEN HTTPError_init("HTTPError",
                 \* "Server error"
                 <<"S","e","r","v","e","r"," ","e","r","r","o","r">> \o url_context(url)
                 \* ". The server encountered an internal error."
                 \o <<"."," ","T","h","e"," ","s","e","r","v","e","r"," ","e","n","c","o","u","n","t","e","r","e","d"," ","a","n"," ","i","n","t","e","r","n","a","l"," ","e","r","r","o","r",".">>,
                 status_code, None, None, Some(guidance_fetch_5xx))
        ELSE HTTPError_init("HTTPError",
                 \* "HTTP error"
                 \* ": "
                 <<"H","T","T","P"," ","e","r","r","o","r">> \o url_context(url) \o <<":"," ">> \o status_text(status_code),
                 status_code, None, None, None)

\* the branch of _classify_request_error for requests.exceptions.HTTPError
classify_http_error(error, url) ==
    LET response == error.response
        status_code == IF response /= None THEN Some(response[1].status_code) ELSE None
    IN  IF status_code = Some(429)
        THEN RateLimitError_init(
                 \* "Rate limited"
                 <<"R","a","t","e"," ","l","i","m","i","t","e","d">> \o url_context(url)
                 \* ". Too many requests to the service."
                 \o <<"."," ","T","o","o"," ","m","a","n","y"," ","r","e","q","u","e","s","t","s"," ","t","o"," ","t","h","e"," ","s","e","r","v","i","c","e",".">>,
                 retry_after_of(response), status_code, None, None, None)
        ELSE IF status_code = Some(503)
        THEN ServiceUnavailableError_init(
                 \* "Service unavailable"
                 <<"S","e","r","v","i","c","e"," ","u","n","a","v","a","i","l","a","b","l","e">> \o url_context(url)
                 \* ". The server is temporarily unavailable."
                 \o <<"."," ","T","h","e"," ","s","e","r","v","e","r"," ","i","s"," ","t","e","m","p","o","r","a","r","i","l","y"," ","u","n","a","v","a","i","l","a","b","l","e",".">>,
                 status_code, None, None, None)
        ELSE IF status_code = Some(404)
        THEN HTTPError_init("HTTPError",
                 \* "Not found"
                 <<"N","o","t"," ","f","o","u","n","d">> \o url_context(url)
                 \* ". The requested resource does not exist."
                 \o <<"."," ","T","h","e"," ","r","e","q","u","e","s","t","e","d"," ","r","e","s","o","u","r","c","e"," ","d","o","e","s"," ","n","o","t"," ","e","x","i","s","t",".">>,
                 status_code, None, None, Some(guidance_fetch_404))
        ELSE IF status_code = Some(403)
        THEN HTTPError_init("HTTPError",
                 \* "Access forbidden"
                 <<"A","c","c","e","s","s"," ","f","o","r","b","i","d","d","e","n">> \o url_context(url)
                 \* ". You don't have permission to access this resource."
                 \o <<"."," ","Y","o","u"," ","d","o","n","'","t"," ","h","a","v","e"," ","p","e","r","m","i","s","s","i","o","n"," ","t","o"," ","a","c","c","e","s","s"," ","t","h","i","s"," ","r","e","s","o","u","r","c","e",".">>,
                 status_code, None, None, Some(guidance_fetch_403))
        ELSE IF status_code /= None /\ status_code[1] /= 0
                /\ 500 <= status_code[1] /\ status_code[1] < 600
        THEN HTTPError_init("HTTPError",
                 \* "Server error"
                 <<"S","e","r","v","e","r"," ","e","r","r","o","r">> \o url_context(url)
                 \* ". The server encountered an internal error."
                 \o <<"."," ","T","h","e"," ","s","e","r","v","e","r"," ","e","n","c","o","u","n","t","e","r","e","d"," ","a","n"," ","i","n","t","e","r","n","a","l"," ","e","r","r","o","r",".">>,
                 status_code, None, None, Some(guidance_fetch_5xx))
        ELSE HTTPError_init("HTTPError",
                 \* "HTTP error"
                 \* ": "
                 <<"H","T","T","P"," ","e","r","r","o","r">> \o url_context(url) \o <<":"," ">> \o status_text(status_code),
                 status_code, None, None, None)

\* the branch for requests.exceptions.ConnectionError
classify_connection_error(error, url) ==
    LET error_str == lower(error.text)
    IN  IF AnyIn(dns_indicators, error_str)
        THEN MCPError_init("DNSError",
                 \* "Could not resolve hostname"
                 \* ". "
                 <<"C","o","u","l","d"," ","n","o","t"," ","r","e","s","o","l","v","e"," ","h","o","s","t","n","a","m","e">> \o url_context(url) \o <<"."," ">>
                 \* "The domain name could not be found."
                 \o <<"T","h","e"," ","d","o","m","a","i","n"," ","n","a","m","e"," ","c","o","u","l","d"," ","n","o","t"," ","b","e"," ","f","o","u","n","d",".">>, None, None, None)
        ELSE MCPError_init("ConnectionError",
                 \* "Connection failed"
                 \* ". "
                 <<"C","o","n","n","e","c","t","i","o","n"," ","f","a","i","l","e","d">> \o url_context(url) \o <<"."," ">>
                 \* "Unable to establish a connection to the server."
                 \o <<"U","n","a","b","l","e"," ","t","o"," ","e","s","t","a","b","l","i","s","h"," ","a"," ","c","o","n","n","e","c","t","i","o","n"," ","t","o"," ","t","h","e"," ","s","e","r","v","e","r",".">>,
                 None, None, None)

\* the classifier testing ConnectionError before SSLError
classify_request_error_connection_first(error, url) ==
    IF requests_isinstance(error, "Timeout")
    THEN MCPError_init("TimeoutError",
             \* "Request timed out"
             <<"R","e","q","u","e","s","t"," ","t","i","m","e","d"," ","o","u","t">> \o url_context(url)
             \* ". The server took too long to respond."
             \o <<"."," ","T","h","e"," ","s","e","r","v","e","r"," ","t","o","o","k"," ","t","o","o"," ","l","o","n","g"," ","t","o"," ","r","e","s","p","o","n","d",".">>, None, None, None)
    ELSE IF requests_isinstance(error, "ConnectionError")
    THEN classify_connection_error(error, url)
    ELSE IF requests_isinstance(error, "SSLError")
    THEN MCPError_init("NetworkError",
             \* "SSL/TLS error"
             <<"S","S","L","/","T","L","S"," ","e","r","r","o","r">> \o url_context(url)
             \* ". Could not establish a secure connection."
             \o <<"."," ","C","o","u","l","d"," ","n","o","t"," ","e","s","t","a","b","l","i","s","h"," ","a"," ","s","e","c","u","r","e"," ","c","o","n","n","e","c","t","i","o","n",".">>,
             None, None, Some(guidance_fetch_ssl))
    ELSE IF requests_isinstance(error, "HTTPError")
    THEN classify_http_error(error, url)
    ELSE MCPError_init("NetworkError",
             \* "Network error"
             \* ": "
             <<"N","e","t","w","o","r","k"," ","e","r","r","o","r">> \o url_context(url) \o <<":"," ">> \o error.text,
             None, None, Some(guidance_fetch_generic))

\* _classify_request_error(error, url)
classify_request_error(error, url) ==
    IF requests_isinstance(error, "Timeout")
    THEN MCPError_init("TimeoutError",
             \* "Request timed out"
             <<"R","e","q","u","e","s","t"," ","t","i","m","e","d"," ","o","u","t">> \o url_context(url)
             \* ". The server took too long to respond."
             \o <<"."," ","T","h","e"," ","s","e","r","v","e","r"," ","t","o","o","k"," ","t","o","o"," ","l","o","n","g"," ","t","o"," ","r","e","s","p","o","n","d",".">>, None, None, None)
    ELSE IF requests_isinstance(error, "SSLError")
    THEN MCPError_init("NetworkError",
             \* "SSL/TLS error"
             <<"S","S","L","/","T","L","S"," ","e","r","r","o","r">> \o url_context(url)
             \* ". Could not establish a secure connection."
             \o <<"."," ","C","o","u","l","d"," ","n","o","t"," ","e","s","t","a","b","l","i","s","h"," ","a"," ","s","e","c","u","r","e"," ","c","o","n","n","e","c","t","i","o","n",".">>,
             None, None, Some(guidance_fetch_ssl))
    ELSE IF requests_isinstance(error, "ConnectionError")
    THEN classify_connection_error(error, url)
    ELSE IF requests_isinstance(error, "HTTPError")
    THEN classify_http_error(error, url)
    ELSE MCPError_init("NetworkError",
             \* "Network error"
             \* ": "
             <<"N","e","t","w","o","r","k"," ","e","r","r","o","r">> \o url_context(url) \o <<":"," ">> \o error.text,
             None, None, Some(guidance_fetch_generic))

---------------------------------------------------------------------------
(* The fetch pipeline (jina_fetch.py).                                     *)

\* "https://r.jina.ai/"
JINA_READER_BASE_URL == <<"h","t","t","p","s",":","/","/","r",".","j","i","n","a",".","a","i","/">>

\* type(x).__name__ for a Python value
TypeNames ==
    \* "str"
    \* "int"
    \* "NoneType"
    [str |-> <<"s","t","r">>, int |-> <<"i","n","t">>, NoneType |-> <<"N","o","n","e","T","y","p","e">>]

\* an exception that is not of the taxonomy, as it escapes a handler
RawError(cls, message) ==
    [cls          |-> cls,
     message      |-> message,
     error_code   |-> <<>>,
     category     |-> <<>>,
     guidance_    |-> None,
     status_code  |-> None,
     retry_after  |-> None,
     url          |-> None,
     content_type |-> None,
     port         |-> None]

\* urllib.parse: the characters of a scheme after its first letter
scheme_chars ==
    {UpperChars[i] : i \in 1..Len(UpperChars)}
    \cup {LowerChars[i] : i \in 1..Len(LowerChars)}
    \cup {Digits[i] : i \in 1..Len(Digits)} \cup {"+", "-", "."}

IsAlpha(c) == lower_char(c) /= c \/ upper_char(c) /= c

\* s with the characters of the set removed
RECURSIVE without(_, _)
without(s, removed) ==
    IF s = <<>> THEN <<>>
    ELSE IF Head(s) \in removed THEN without(Tail(s), removed)
    ELSE <<Head(s)>> \o without(Tail(s), removed)

\* s.find(c) for a character c, counted from 1; 0 when c is not in s
find_char(s, cs) ==
    IF \E i \in 1..Len(s) : s[i] \in cs
    THEN CHOOSE i \in 1..Len(s) : s[i] \in cs /\ \A j \in 1..(i - 1) : s[j] \notin cs
    ELSE 0

\* urllib.parse.urlparse(url): the scheme and the netloc of the result;
\* invalid is TRUE where the library raises ValueError (a netloc with one
\* square bracket and not the other)
urlparse(url) ==
    LET u == without(lstrip(url), {"\t", "\n", "\r"})
        i == find_char(u, {":"})
        has_scheme ==
            /\ i > 1
            /\ IsAlpha(u[1])
            /\ \A j \in 1..(i - 1) : u[j] \in scheme_chars
        scheme == IF has_scheme THEN lower(SubSeq(u, 1, i - 1)) ELSE <<>>
        rest == IF has_scheme THEN SubSeq(u, i + 1, Len(u)) ELSE u
        has_netloc == Len(rest) >= 2 /\ rest[1] = "/" /\ rest[2] = "/"
        after == IF has_netloc THEN SubSeq(rest, 3, Len(rest)) ELSE <<>>
        delim == find_char(after, {"/", "?", "#"})
        netloc == IF delim = 0 THEN after ELSE SubSeq(after, 1, delim - 1)
    IN  [scheme |-> scheme, netloc |-> netloc,
         invalid |-> (find_char(netloc, {"["}) > 0) /= (find_char(netloc, {"]"}) > 0)]

\* str(x) for a Python value
py_str(x) ==
    \* "None"
    IF x.t = "str" THEN x.s ELSE IF x.t = "int" THEN int_str(x.n) ELSE <<"N","o","n","e">>

\* _validate_url(url): None when the URL is accepted, else the exception
\* raised
validate_url(url) ==
    IF ~truthy(url) \/ url.t /= "str"
    THEN Some(InvalidURLError_init(
                  \* "URL must be a non-empty string."
                  <<"U","R","L"," ","m","u","s","t"," ","b","e"," ","a"," ","n","o","n","-","e","m","p","t","y"," ","s","t","r","i","n","g",".">>,
                  IF url.t /= "NoneType" THEN Some(py_str(url)) ELSE None,
                  \* "Please provide a valid URL as a string. For example:\n  BULLET https://example.com\n  BULLET https://www.example.com/page"
                  None, None, Some(<<"P","l","e","a","s","e"," ","p","r","o","v","i","d","e"," ","a"," ","v","a","l","i","d"," ","U","R","L"," ","a","s"," ","a"," ","s","t","r","i","n","g","."," ","F","o","r"," ","e","x","a","m","p","l","e",":","\n"," "," ","BULLET"," ","h","t","t","p","s",":","/","/","e","x","a","m","p","l","e",".","c","o","m","\n"," "," ","BULLET"," ","h","t","t","p","s",":","/","/","w","w","w",".","e","x","a","m","p","l","e",".","c","o","m","/","p","a","g","e">>)))
    ELSE
      LET url_stripped == strip(url.s)
      IN  IF url_stripped = <<>>
          THEN Some(InvalidURLError_init(
                        \* "URL cannot be empty or contain only whitespace."
                        <<"U","R","L"," ","c","a","n","n","o","t"," ","b","e"," ","e","m","p","t","y"," ","o","r"," ","c","o","n","t","a","i","n"," ","o","n","l","y"," ","w","h","i","t","e","s","p","a","c","e",".">>,
                        \* "Please provide a valid URL. For example:\n  BULLET https://example.com\n  BULLET https://www.example.com/page"
                        Some(url.s), None, None, Some(<<"P","l","e","a","s","e"," ","p","r","o","v","i","d","e"," ","a"," ","v","a","l","i","d"," ","U","R","L","."," ","F","o","r"," ","e","x","a","m","p","l","e",":","\n"," "," ","BULLET"," ","h","t","t","p","s",":","/","/","e","x","a","m","p","l","e",".","c","o","m","\n"," "," ","BULLET"," ","h","t","t","p","s",":","/","/","w","w","w",".","e","x","a","m","p","l","e",".","c","o","m","/","p","a","g","e">>)))
          \* " "
          ELSE IF Contains(url_stripped, <<" ">>)
          THEN Some(InvalidURLError_init(
                        \* "URL contains spaces: '"
                        \* "'"
                        <<"U","R","L"," ","c","o","n","t","a","i","n","s"," ","s","p","a","c","e","s",":"," ","'">> \o url_stripped \o <<"'">>,
                        \* "URLs cannot contain spaces. If the URL has spaces, try:\n  BULLET Replacing spaces with %20 (URL encoding)\n  BULLET Removing the spaces entirely\n  BULLET Checking if you copied the full URL correctly"
                        Some(url_stripped), None, None, Some(<<"U","R","L","s"," ","c","a","n","n","o","t"," ","c","o","n","t","a","i","n"," ","s","p","a","c","e","s","."," ","I","f"," ","t","h","e"," ","U","R","L"," ","h","a","s"," ","s","p","a","c","e","s",","," ","t","r","y",":","\n"," "," ","BULLET"," ","R","e","p","l","a","c","i","n","g"," ","s","p","a","c","e","s"," ","w","i","t","h"," ","%","2","0"," ","(","U","R","L"," ","e","n","c","o","d","i","n","g",")","\n"," "," ","BULLET"," ","R","e","m","o","v","i","n","g"," ","t","h","e"," ","s","p","a","c","e","s"," ","e","n","t","i","r","e","l","y","\n"," "," ","BULLET"," ","C","h","e","c","k","i","n","g"," ","i","f"," ","y","o","u"," ","c","o","p","i","e","d"," ","t","h","e"," ","f","u","l","l"," ","U","R","L"," ","c","o","r","r","e","c","t","l","y">>)))
          ELSE
            LET parsed_url == urlparse(url_stripped)
            IN  IF parsed_url.invalid
                \* "Invalid IPv6 URL"
                THEN Some(RawError("ValueError", <<"I","n","v","a","l","i","d"," ","I","P","v","6"," ","U","R","L">>))
                ELSE IF parsed_url.scheme = <<>>
                THEN Some(InvalidURLError_init(
                        \* "URL is missing the scheme (http:// or https://): '"
                        <<"U","R","L"," ","i","s"," ","m","i","s","s","i","n","g"," ","t","h","e"," ","s","c","h","e","m","e"," ","(","h","t","t","p",":","/","/"," ","o","r"," ","h","t","t","p","s",":","/","/",")",":"," ","'">>
                        \* "'"
                        \o url_stripped \o <<"'">>,
                        Some(url_stripped), None, None,
                        \* "URLs must start with http:// or https://. Did you mean:\n  BULLET https://"
                        \* "\nExample valid URLs:\n  BULLET https://example.com\n  BULLET http://localhost:8080"
                        Some((<<"U","R","L","s"," ","m","u","s","t"," ","s","t","a","r","t"," ","w","i","t","h"," ","h","t","t","p",":","/","/"," ","o","r"," ","h","t","t","p","s",":","/","/","."," ","D","i","d"," ","y","o","u"," ","m","e","a","n",":","\n"," "," ","BULLET"," ","h","t","t","p","s",":","/","/">> \o url_stripped \o <<"\n","E","x","a","m","p","l","e"," ","v","a","l","i","d"," ","U","R","L","s",":","\n"," "," ","BULLET"," ","h","t","t","p","s",":","/","/","e","x","a","m","p","l","e",".","c","o","m","\n"," "," ","BULLET"," ","h","t","t","p",":","/","/","l","o","c","a","l","h","o","s","t",":","8","0","8","0">>))))
                \* "http"
                \* "https"
                ELSE IF parsed_url.scheme \notin { <<"h","t","t","p">>, <<"h","t","t","p","s">> }
                THEN Some(InvalidURLError_init(
                        \* "Unsupported URL scheme: '"
                        <<"U","n","s","u","p","p","o","r","t","e","d"," ","U","R","L"," ","s","c","h","e","m","e",":"," ","'">> \o parsed_url.scheme
                        \* "'. Only HTTP and HTTPS are supported."
                        \o <<"'","."," ","O","n","l","y"," ","H","T","T","P"," ","a","n","d"," ","H","T","T","P","S"," ","a","r","e"," ","s","u","p","p","o","r","t","e","d",".">>,
                        Some(url_stripped), None, None,
                        \* "The scheme '"
                        \* "://' is not supported. Please use:\n  BULLET https:// (recommended for secure connections)\n  BULLET http:// (for non-secure connections)\nExample: https://example.com"
                        Some((<<"T","h","e"," ","s","c","h","e","m","e"," ","'">> \o parsed_url.scheme \o <<":","/","/","'"," ","i","s"," ","n","o","t"," ","s","u","p","p","o","r","t","e","d","."," ","P","l","e","a","s","e"," ","u","s","e",":","\n"," "," ","BULLET"," ","h","t","t","p","s",":","/","/"," ","(","r","e","c","o","m","m","e","n","d","e","d"," ","f","o","r"," ","s","e","c","u","r","e"," ","c","o","n","n","e","c","t","i","o","n","s",")","\n"," "," ","BULLET"," ","h","t","t","p",":","/","/"," ","(","f","o","r"," ","n","o","n","-","s","e","c","u","r","e"," ","c","o","n","n","e","c","t","i","o","n","s",")","\n","E","x","a","m","p","l","e",":"," ","h","t","t","p","s",":","/","/","e","x","a","m","p","l","e",".","c","o","m">>))))
                ELSE IF parsed_url.netloc = <<>>
                THEN Some(InvalidURLError_init(
                        \* "URL is missing the domain name: '"
                        \* "'"
                        <<"U","R","L"," ","i","s"," ","m","i","s","s","i","n","g"," ","t","h","e"," ","d","o","m","a","i","n"," ","n","a","m","e",":"," ","'">> \o url_stripped \o <<"'">>,
                        \* "The URL must include a valid domain name after the scheme. For example:\n  BULLET https://example.com (domain is 'example.com')\n  BULLET https://www.example.com/page (domain is 'www.example.com')\nMake sure the URL follows this format: https://domain.com/path"
                        Some(url_stripped), None, None, Some(<<"T","h","e"," ","U","R","L"," ","m","u","s","t"," ","i","n","c","l","u","d","e"," ","a"," ","v","a","l","i","d"," ","d","o","m","a","i","n"," ","n","a","m","e"," ","a","f","t","e","r"," ","t","h","e"," ","s","c","h","e","m","e","."," ","F","o","r"," ","e","x","a","m","p","l","e",":","\n"," "," ","BULLET"," ","h","t","t","p","s",":","/","/","e","x","a","m","p","l","e",".","c","o","m"," ","(","d","o","m","a","i","n"," ","i","s"," ","'","e","x","a","m","p","l","e",".","c","o","m","'",")","\n"," "," ","BULLET"," ","h","t","t","p","s",":","/","/","w","w","w",".","e","x","a","m","p","l","e",".","c","o","m","/","p","a","g","e"," ","(","d","o","m","a","i","n"," ","i","s"," ","'","w","w","w",".","e","x","a","m","p","l","e",".","c","o","m","'",")","\n","M","a","k","e"," ","s","u","r","e"," ","t","h","e"," ","U","R","L"," ","f","o","l","l","o","w","s"," ","t","h","i","s"," ","f","o","r","m","a","t",":"," ","h","t","t","p","s",":","/","/","d","o","m","a","i","n",".","c","o","m","/","p","a","t","h">>)))
                ELSE None

\* urllib.parse.quote: the characters never quoted, and the default safe "/"
quote_safe ==
    {UpperChars[i] : i \in 1..Len(UpperChars)}
    \cup {LowerChars[i] : i \in 1..Len(LowerChars)}
    \cup {Digits[i] : i \in 1..Len(Digits)} \cup {"_", ".", "-", "~", "/"}

\* the percent-encoding of one character outside quote_safe
percent_encoded(c) ==
    \* "%20"
    CASE c = " "  -> <<"%","2","0">>
      \* "%09"
      [] c = "\t" -> <<"%","0","9">>
      \* "%0A"
      [] c = "\n" -> <<"%","0","A">>
      \* "%0D"
      [] c = "\r" -> <<"%","0","D">>
      \* "%23"
      [] c = "#"  -> <<"%","2","3">>
      \* "%25"
      [] c = "%"  -> <<"%","2","5">>
      \* "%26"
      [] c = "&"  -> <<"%","2","6">>
      \* "%2B"
      [] c = "+"  -> <<"%","2","B">>
      \* "%3A"
      [] c = ":"  -> <<"%","3","A">>
      \* "%3D"
      [] c = "="  -> <<"%","3","D">>
      \* "%3F"
      [] c = "?"  -> <<"%","3","F">>
      \* "%5B"
      [] c = "["  -> <<"%","5","B">>
      \* "%5D"
      [] c = "]"  -> <<"%","5","D">>

\* urllib.parse.quote(s)
RECURSIVE quote(_)
quote(s) ==
    IF s = <<>> THEN <<>>
    ELSE (IF Head(s) \in quote_safe THEN <<Head(s)>> ELSE percent_encoded(Head(s)))
         \o quote(Tail(s))

\* _build_headers(output_format, with_images)
build_headers(output_format, with_images) ==
    \* "true"
    [x_no_cache |-> <<"t","r","u","e">>,
     \* "json"
     \* "application/json"
     Accept |-> IF lower(output_format) = <<"j","s","o","n">> THEN Some(<<"a","p","p","l","i","c","a","t","i","o","n","/","j","s","o","n">>)
                ELSE None,
     \* "true"
     X_With_Generated_Alt |-> IF with_images THEN Some(<<"t","r","u","e">>) ELSE None]

\* a suffix of three characters
\* "..."
TRUNCATION_SUFFIX_ellipsis == <<".",".",".">>

\* "... (content truncated)"
TRUNCATION_SUFFIX == <<".",".","."," ","(","c","o","n","t","e","n","t"," ","t","r","u","n","c","a","t","e","d",")">>

\* a slice that counts a negative n as zero
slice_to_clamped(content, n) ==
    SubSeq(content, 1, IF n < 0 THEN 0 ELSE IF n < Len(content) THEN n ELSE Len(content))

\* content[:n] for an int n
slice_to(content, n) ==
    IF n >= 0 THEN SubSeq(content, 1, IF n < Len(content) THEN n ELSE Len(content))
    ELSE SubSeq(content, 1, IF Len(content) + n > 0 THEN Len(content) + n ELSE 0)

\* truncation looking at whether max_length is given, not at its truth
truncate_content_is_not_none(content, max_length) ==
    IF max_length /= PyNone /\ Len(content) > max_length.n
    THEN slice_to(content, max_length.n) \o TRUNCATION_SUFFIX
    ELSE content

\* _truncate_content(content, max_length), max_length an int or None
truncate_content(content, max_length) ==
    IF truthy(max_length) /\ Len(content) > max_length.n
    THEN slice_to(content, max_length.n) \o TRUNCATION_SUFFIX
    ELSE content

\* the body of a response as response.json() gives it: a JSON object with
\* its "content" member, if any, and its other members, or a JSON array
JsonObject(content, title) == [kind |-> "dict", content |-> content, title |-> title]

JsonArray == [kind |-> "list", content |-> None, title |-> None]

\* a JSON path that returns only the content member when it truncates
process_response_content_only(response, output_format, max_length) ==
    \* "json"
    IF lower(output_format) = <<"j","s","o","n">>
    THEN IF response.json = None
         THEN [kind |-> "raise", value |-> None,
               exc |-> Some(RequestError(response.decode_error,
                                         \* "Expecting value: line 1 column 1 (char 0)"
                                         <<"E","x","p","e","c","t","i","n","g"," ","v","a","l","u","e",":"," ","l","i","n","e"," ","1"," ","c","o","l","u","m","n"," ","1"," ","(","c","h","a","r"," ","0",")">>,
                                         None))]
         ELSE LET content == response.json[1]
              IN  IF ~truthy(max_length)
                  THEN [kind |-> "return", value |-> Some(content), exc |-> None]
                  ELSE IF content.kind /= "dict"
                  THEN [kind |-> "raise", value |-> None,
                        exc |-> Some(RequestError("AttributeError",
                                    \* "'list' object has no attribute 'get'"
                                    <<"'","l","i","s","t","'"," ","o","b","j","e","c","t"," ","h","a","s"," ","n","o"," ","a","t","t","r","i","b","u","t","e"," ","'","g","e","t","'">>, None))]
                  ELSE IF content.content /= None /\ truthy(content.content[1])
                  THEN [kind |-> "return",
                        value |-> Some(JsonObject(
                                   Some(PyStr(truncate_content(content.content[1].s,
                                                               max_length))), None)),
                        exc |-> None]
                  ELSE [kind |-> "return", value |-> Some(content), exc |-> None]
    ELSE [kind |-> "return",
          value |-> Some(truncate_content(response.text, max_length)),
          exc |-> None]

\* _process_response(response, output_format, max_length): what it returns
\* or the exception it lets through
process_response(response, output_format, max_length) ==
    \* "json"
    IF lower(output_format) = <<"j","s","o","n">>
    THEN IF response.json = None
         THEN [kind |-> "raise", value |-> None,
               exc |-> Some(RequestError(response.decode_error,
                                         \* "Expecting value: line 1 column 1 (char 0)"
                                         <<"E","x","p","e","c","t","i","n","g"," ","v","a","l","u","e",":"," ","l","i","n","e"," ","1"," ","c","o","l","u","m","n"," ","1"," ","(","c","h","a","r"," ","0",")">>,
                                         None))]
         ELSE LET content == response.json[1]
              IN  IF ~truthy(max_length)
                  THEN [kind |-> "return", value |-> Some(content), exc |-> None]
                  ELSE IF content.kind /= "dict"
                  THEN [kind |-> "raise", value |-> None,
                        exc |-> Some(RequestError("AttributeError",
                                    \* "'list' object has no attribute 'get'"
                                    <<"'","l","i","s","t","'"," ","o","b","j","e","c","t"," ","h","a","s"," ","n","o"," ","a","t","t","r","i","b","u","t","e"," ","'","g","e","t","'">>, None))]
                  ELSE IF content.content /= None /\ truthy(content.content[1])
                  THEN [kind |-> "return",
                        value |-> Some([content EXCEPT !.content =
                                   Some(PyStr(truncate_content(content.content[1].s,
                                                               max_length)))]),
                        exc |-> None]
                  ELSE [kind |-> "return", value |-> Some(content), exc |-> None]
    ELSE [kind |-> "return",
          value |-> Some(truncate_content(response.text, max_length)),
          exc |-> None]

\* what the provider does on one requests.get call
GetReturns(response) == [kind |-> "return", response |-> Some(response), exc |-> None]

GetRaises(exc) == [kind |-> "raise", response |-> None, exc |-> Some(exc)]

\* requests.get(jina_url, headers=headers, timeout=30)
requests_get_call(jina_url, headers) ==
    [fn |-> "requests.get", url |-> jina_url, headers |-> headers, timeout |-> 30]

\* Response.raise_for_status(): the HTTPError of a 4xx or 5xx response
raise_for_status(response, jina_url) ==
    IF 400 <= response.status_code /\ response.status_code < 500
    THEN Some(RequestError("HTTPError",
                  \* " Client Error: "
                  int_str(response.status_code) \o <<" ","C","l","i","e","n","t"," ","E","r","r","o","r",":"," ">>
                  \* " for url: "
                  \o response.reason \o <<" ","f","o","r"," ","u","r","l",":"," ">> \o jina_url,
                  Some(response)))
    ELSE IF 500 <= response.status_code /\ response.status_code < 600
    THEN Some(RequestError("HTTPError",
                  \* " Server Error: "
                  int_str(response.status_code) \o <<" ","S","e","r","v","e","r"," ","E","r","r","o","r",":"," ">>
                  \* " for url: "
                  \o response.reason \o <<" ","f","o","r"," ","u","r","l",":"," ">> \o jina_url,
                  Some(response)))
    ELSE None

\* the except clauses of fetch_url applied to an exception raised in its
\* try block
fetch_url_except(e, url) ==
    IF requests_isinstance(e, "RequestException")
    THEN Raised(classify_request_error(e, Some(url)))
    ELSE IF requests_isinstance(e, "json.JSONDecodeError")
    THEN Raised(ContentParsingError_init(
                    \* "Failed to decode JSON response for URL: "
                    <<"F","a","i","l","e","d"," ","t","o"," ","d","e","c","o","d","e"," ","J","S","O","N"," ","r","e","s","p","o","n","s","e"," ","f","o","r"," ","U","R","L",":"," ">> \o url,
                    \* "json"
                    \* "The server returned a response that could not be parsed as JSON. This could mean:\n  BULLET The URL does not return valid JSON\n  BULLET The response was truncated or corrupted\n  BULLET Try using format='markdown' instead of 'json'\n  BULLET Verify the URL returns the expected content type"
                    Some(<<"j","s","o","n">>), None, None, Some(<<"T","h","e"," ","s","e","r","v","e","r"," ","r","e","t","u","r","n","e","d"," ","a"," ","r","e","s","p","o","n","s","e"," ","t","h","a","t"," ","c","o","u","l","d"," ","n","o","t"," ","b","e"," ","p","a","r","s","e","d"," ","a","s"," ","J","S","O","N","."," ","T","h","i","s"," ","c","o","u","l","d"," ","m","e","a","n",":","\n"," "," ","BULLET"," ","T","h","e"," ","U","R","L"," ","d","o","e","s"," ","n","o","t"," ","r","e","t","u","r","n"," ","v","a","l","i","d"," ","J","S","O","N","\n"," "," ","BULLET"," ","T","h","e"," ","r","e","s","p","o","n","s","e"," ","w","a","s"," ","t","r","u","n","c","a","t","e","d"," ","o","r"," ","c","o","r","r","u","p","t","e","d","\n"," "," ","BULLET"," ","T","r","y"," ","u","s","i","n","g"," ","f","o","r","m","a","t","=","'","m","a","r","k","d","o","w","n","'"," ","i","n","s","t","e","a","d"," ","o","f"," ","'","j","s","o","n","'","\n"," "," ","BULLET"," ","V","e","r","i","f","y"," ","t","h","e"," ","U","R","L"," ","r","e","t","u","r","n","s"," ","t","h","e"," ","e","x","p","e","c","t","e","d"," ","c","o","n","t","e","n","t"," ","t","y","p","e">>)))
    ELSE Raised(RawError(e.type, e.text))

\* a fetch that builds the request from the URL it validated
fetch_url_of_stripped(url, output_format, max_length, with_images, resp) ==
    LET invalid == validate_url(url)
    IN  IF invalid /= None
        THEN Step(<<>>, "done", None, Raised(invalid[1]), None)
        ELSE
          LET headers == build_headers(output_format, with_images)
              jina_url == JINA_READER_BASE_URL \o quote(strip(url.s))
              call == requests_get_call(jina_url, headers)
          IN  IF resp.kind = "raise"
              THEN Step(<<call>>, "done", None, fetch_url_except(resp.exc[1], url.s), None)
              ELSE
                LET response == resp.response[1]
                    http_error == raise_for_status(response, jina_url)
                    processed == process_response(response, output_format, max_length)
                IN  IF http_error /= None
                    THEN Step(<<call>>, "done", None,
                              fetch_url_except(http_error[1], url.s), None)
                    ELSE IF processed.kind = "raise"
                    THEN Step(<<call>>, "done", None,
                              fetch_url_except(processed.exc[1], url.s), None)
                    ELSE Step(<<call>>, "done", None, Returned(processed.value[1]), None)

\* fetch_url(url, output_format, max_length, with_images); resp is what the
\* provider does on the call
fetch_url(url, output_format, max_length, with_images, resp) ==
    LET invalid == validate_url(url)
    IN  IF invalid /= None
        THEN Step(<<>>, "done", None, Raised(invalid[1]), None)
        ELSE
          LET headers == build_headers(output_format, with_images)
              jina_url == JINA_READER_BASE_URL \o quote(url.s)
              call == requests_get_call(jina_url, headers)
          IN  IF resp.kind = "raise"
              THEN Step(<<call>>, "done", None, fetch_url_except(resp.exc[1], url.s), None)
              ELSE
                LET response == resp.response[1]
                    http_error == raise_for_status(response, jina_url)
                    processed == process_response(response, output_format, max_length)
                IN  IF http_error /= None
                    THEN Step(<<call>>, "done", None,
                              fetch_url_except(http_error[1], url.s), None)
                    ELSE IF processed.kind = "raise"
                    THEN Step(<<call>>, "done", None,
                              fetch_url_except(processed.exc[1], url.s), None)
                    ELSE Step(<<call>>, "done", None, Returned(processed.value[1]), None)

\* int(max_length) in jina_fetch: None where it raises
int_of(max_length) ==
    IF max_length.t = "int" THEN Some(max_length.n)
    ELSE IF max_length.t = "str" THEN int_of_str(max_length.s)
    ELSE None

\* the tool jina_fetch(url, format, max_length, with_images)
jina_fetch(url, format, max_length, with_images, resp) ==
    IF ~truthy(url)
    THEN Step(<<>>, "done", None,
              \* "Missing required parameter: url"
              Raised(RawError("ValueError", <<"M","i","s","s","i","n","g"," ","r","e","q","u","i","r","e","d"," ","p","a","r","a","m","e","t","e","r",":"," ","u","r","l">>)), None)
    \* "markdown"
    \* "json"
    ELSE IF format /= <<>> /\ lower(format) \notin { <<"m","a","r","k","d","o","w","n">>, <<"j","s","o","n">> }
    THEN Step(<<>>, "done", None,
              \* "Format must be either 'markdown' or 'json'"
              Raised(RawError("ValueError", <<"F","o","r","m","a","t"," ","m","u","s","t"," ","b","e"," ","e","i","t","h","e","r"," ","'","m","a","r","k","d","o","w","n","'"," ","o","r"," ","'","j","s","o","n","'">>)),
              None)
    ELSE IF max_length.t /= "NoneType"
            /\ (int_of(max_length) = None \/ int_of(max_length)[1] <= 0)
    THEN Step(<<>>, "done", None,
              \* "max_length must be a positive integer"
              Raised(RawError("ValueError", <<"m","a","x","_","l","e","n","g","t","h"," ","m","u","s","t"," ","b","e"," ","a"," ","p","o","s","i","t","i","v","e"," ","i","n","t","e","g","e","r">>)),
              None)
    ELSE fetch_url(url, format,
                   IF max_length.t = "NoneType" THEN PyNone
                   ELSE PyInt(int_of(max_length)[1]),
                   with_images, resp)

---------------------------------------------------------------------------
(* The search tool (duckduckgo_search.py).                                 *)

\* "\n".join(lines)
RECURSIVE join_lines(_)
join_lines(lines) ==
    IF lines = <<>> THEN <<>>
    ELSE IF Len(lines) = 1 THEN lines[1]
    ELSE lines[1] \o <<"\n">> \o join_lines(Tail(lines))

\* the four lines of the result at a position of the numbered listing
result_lines(position, result) ==
    \* ". "
    << int_str(position) \o <<"."," ">> \o result.title,
       \* "   URL: "
       <<" "," "," ","U","R","L",":"," ">> \o result.url,
       \* "   Summary: "
       <<" "," "," ","S","u","m","m","a","r","y",":"," ">> \o result.snippet,
       <<>> >>

RECURSIVE listing_lines(_, _)
listing_lines(results, position) ==
    IF position > Len(results) THEN <<>>
    ELSE result_lines(position, results[position]) \o listing_lines(results, position + 1)

\* _format_results_as_text(results, query)
format_results_as_text(results, query) ==
    IF results = <<>>
    \* "No results found for '"
    \* "'. "
    THEN <<"N","o"," ","r","e","s","u","l","t","s"," ","f","o","u","n","d"," ","f","o","r"," ","'">> \o query \o <<"'","."," ">>
         \* "This could be due to DuckDuckGo rate limiting, the query returning no matches, or network issues. Try rephrasing your search or try again in a few minutes."
         \o <<"T","h","i","s"," ","c","o","u","l","d"," ","b","e"," ","d","u","e"," ","t","o"," ","D","u","c","k","D","u","c","k","G","o"," ","r","a","t","e"," ","l","i","m","i","t","i","n","g",","," ","t","h","e"," ","q","u","e","r","y"," ","r","e","t","u","r","n","i","n","g"," ","n","o"," ","m","a","t","c","h","e","s",","," ","o","r"," ","n","e","t","w","o","r","k"," ","i","s","s","u","e","s","."," ","T","r","y"," ","r","e","p","h","r","a","s","i","n","g"," ","y","o","u","r"," ","s","e","a","r","c","h"," ","o","r"," ","t","r","y"," ","a","g","a","i","n"," ","i","n"," ","a"," ","f","e","w"," ","m","i","n","u","t","e","s",".">>
    \* "Found "
    \* " search results:\n"
    ELSE join_lines(<< <<"F","o","u","n","d"," ">> \o int_str(Len(results)) \o <<" ","s","e","a","r","c","h"," ","r","e","s","u","l","t","s",":","\n">> >>
                    \o listing_lines(results, 1))

\* the tool searching with the max_results it was given, not the integer
duckduckgo_search_params_unconverted(query, max_results, output_format) ==
    IF ~truthy(query)
    THEN [error |-> Some(MCPError_init("ValidationError",
                        \* "Missing required parameter: query"
                        <<"M","i","s","s","i","n","g"," ","r","e","q","u","i","r","e","d"," ","p","a","r","a","m","e","t","e","r",":"," ","q","u","e","r","y">>, None, None,
                        \* "The 'query' parameter is required. Please provide a search query.\nExample: duckduckgo_search(query='python web scraping tutorial')"
                        Some(<<"T","h","e"," ","'","q","u","e","r","y","'"," ","p","a","r","a","m","e","t","e","r"," ","i","s"," ","r","e","q","u","i","r","e","d","."," ","P","l","e","a","s","e"," ","p","r","o","v","i","d","e"," ","a"," ","s","e","a","r","c","h"," ","q","u","e","r","y",".","\n","E","x","a","m","p","l","e",":"," ","d","u","c","k","d","u","c","k","g","o","_","s","e","a","r","c","h","(","q","u","e","r","y","=","'","p","y","t","h","o","n"," ","w","e","b"," ","s","c","r","a","p","i","n","g"," ","t","u","t","o","r","i","a","l","'",")">>))),
          max_results |-> None, output_format |-> None]
    ELSE IF max_results.t /= "int" /\ int_of(max_results) = None
    THEN [error |-> Some(MCPError_init("ValidationError",
                        \* "Invalid max_results: '"
                        <<"I","n","v","a","l","i","d"," ","m","a","x","_","r","e","s","u","l","t","s",":"," ","'">> \o py_str(max_results)
                        \* "'. max_results must be a positive integer."
                        \o <<"'","."," ","m","a","x","_","r","e","s","u","l","t","s"," ","m","u","s","t"," ","b","e"," ","a"," ","p","o","s","i","t","i","v","e"," ","i","n","t","e","g","e","r",".">>, None, None,
                        \* "The 'max_results' parameter must be a valid positive integer.\n  BULLET Valid values: 1, 5, 10, 20, etc.\n  BULLET Default value is 5 if not specified\nYou provided: '"
                        Some(<<"T","h","e"," ","'","m","a","x","_","r","e","s","u","l","t","s","'"," ","p","a","r","a","m","e","t","e","r"," ","m","u","s","t"," ","b","e"," ","a"," ","v","a","l","i","d"," ","p","o","s","i","t","i","v","e"," ","i","n","t","e","g","e","r",".","\n"," "," ","BULLET"," ","V","a","l","i","d"," ","v","a","l","u","e","s",":"," ","1",","," ","5",","," ","1","0",","," ","2","0",","," ","e","t","c",".","\n"," "," ","BULLET"," ","D","e","f","a","u","l","t"," ","v","a","l","u","e"," ","i","s"," ","5"," ","i","f"," ","n","o","t"," ","s","p","e","c","i","f","i","e","d","\n","Y","o","u"," ","p","r","o","v","i","d","e","d",":"," ","'">>
                             \* "' (type: "
                             \o py_str(max_results) \o <<"'"," ","(","t","y","p","e",":"," ">>
                             \o TypeNames[max_results.t]
                             \* ")"
                             \o <<")">>))),
          max_results |-> None, output_format |-> None]
    ELSE
      LET n == int_of(max_results)[1]
          \* "json"
          format == IF output_format /= <<>> THEN lower(output_format) ELSE <<"j","s","o","n">>
      IN  IF n <= 0
          THEN [error |-> Some(MCPError_init("ValidationError",
                        \* "Invalid max_results: "
                        <<"I","n","v","a","l","i","d"," ","m","a","x","_","r","e","s","u","l","t","s",":"," ">> \o int_str(n)
                        \* ". max_results must be a positive integer."
                        \o <<"."," ","m","a","x","_","r","e","s","u","l","t","s"," ","m","u","s","t"," ","b","e"," ","a"," ","p","o","s","i","t","i","v","e"," ","i","n","t","e","g","e","r",".">>, None, None,
                        \* "The 'max_results' parameter must be a positive integer.\n  BULLET Valid values: 1, 5, 10, 20, etc.\n  BULLET Default value is 5 if not specified\nYou provided: "
                        Some(<<"T","h","e"," ","'","m","a","x","_","r","e","s","u","l","t","s","'"," ","p","a","r","a","m","e","t","e","r"," ","m","u","s","t"," ","b","e"," ","a"," ","p","o","s","i","t","i","v","e"," ","i","n","t","e","g","e","r",".","\n"," "," ","BULLET"," ","V","a","l","i","d"," ","v","a","l","u","e","s",":"," ","1",","," ","5",","," ","1","0",","," ","2","0",","," ","e","t","c",".","\n"," "," ","BULLET"," ","D","e","f","a","u","l","t"," ","v","a","l","u","e"," ","i","s"," ","5"," ","i","f"," ","n","o","t"," ","s","p","e","c","i","f","i","e","d","\n","Y","o","u"," ","p","r","o","v","i","d","e","d",":"," ">>
                             \o int_str(n)))),
                max_results |-> None, output_format |-> None]
          \* "json"
          \* "text"
          ELSE IF format \notin { <<"j","s","o","n">>, <<"t","e","x","t">> }
          THEN [error |-> Some(MCPError_init("ValidationError",
                        \* "Invalid output_format: '"
                        <<"I","n","v","a","l","i","d"," ","o","u","t","p","u","t","_","f","o","r","m","a","t",":"," ","'">> \o format
                        \* "'. output_format must be 'json' or 'text'."
                        \o <<"'","."," ","o","u","t","p","u","t","_","f","o","r","m","a","t"," ","m","u","s","t"," ","b","e"," ","'","j","s","o","n","'"," ","o","r"," ","'","t","e","x","t","'",".">>, None, None,
                        \* "The 'output_format' parameter accepts two values:\n  BULLET 'json' (default) - Returns results as a list of dictionaries\n  BULLET 'text' - Returns results as LLM-friendly formatted text\nYou provided: '"
                        Some(<<"T","h","e"," ","'","o","u","t","p","u","t","_","f","o","r","m","a","t","'"," ","p","a","r","a","m","e","t","e","r"," ","a","c","c","e","p","t","s"," ","t","w","o"," ","v","a","l","u","e","s",":","\n"," "," ","BULLET"," ","'","j","s","o","n","'"," ","(","d","e","f","a","u","l","t",")"," ","-"," ","R","e","t","u","r","n","s"," ","r","e","s","u","l","t","s"," ","a","s"," ","a"," ","l","i","s","t"," ","o","f"," ","d","i","c","t","i","o","n","a","r","i","e","s","\n"," "," ","BULLET"," ","'","t","e","x","t","'"," ","-"," ","R","e","t","u","r","n","s"," ","r","e","s","u","l","t","s"," ","a","s"," ","L","L","M","-","f","r","i","e","n","d","l","y"," ","f","o","r","m","a","t","t","e","d"," ","t","e","x","t","\n","Y","o","u"," ","p","r","o","v","i","d","e","d",":"," ","'">>
                             \* "'"
                             \o format \o <<"'">>))),
                max_results |-> None, output_format |-> None]
          ELSE [error |-> None, max_results |-> Some(max_results),
                output_format |-> Some(format)]

\* the checks of the tool duckduckgo_search before it searches: the error
\* raised, or the max_results and the output_format the search is made with
duckduckgo_search_params(query, max_results, output_format) ==
    IF ~truthy(query)
    THEN [error |-> Some(MCPError_init("ValidationError",
                        \* "Missing required parameter: query"
                        <<"M","i","s","s","i","n","g"," ","r","e","q","u","i","r","e","d"," ","p","a","r","a","m","e","t","e","r",":"," ","q","u","e","r","y">>, None, None,
                        \* "The 'query' parameter is required. Please provide a search query.\nExample: duckduckgo_search(query='python web scraping tutorial')"
                        Some(<<"T","h","e"," ","'","q","u","e","r","y","'"," ","p","a","r","a","m","e","t","e","r"," ","i","s"," ","r","e","q","u","i","r","e","d","."," ","P","l","e","a","s","e"," ","p","r","o","v","i","d","e"," ","a"," ","s","e","a","r","c","h"," ","q","u","e","r","y",".","\n","E","x","a","m","p","l","e",":"," ","d","u","c","k","d","u","c","k","g","o","_","s","e","a","r","c","h","(","q","u","e","r","y","=","'","p","y","t","h","o","n"," ","w","e","b"," ","s","c","r","a","p","i","n","g"," ","t","u","t","o","r","i","a","l","'",")">>))),
          max_results |-> None, output_format |-> None]
    ELSE IF max_results.t /= "int" /\ int_of(max_results) = None
    THEN [error |-> Some(MCPError_init("ValidationError",
                        \* "Invalid max_results: '"
                        <<"I","n","v","a","l","i","d"," ","m","a","x","_","r","e","s","u","l","t","s",":"," ","'">> \o py_str(max_results)
                        \* "'. max_results must be a positive integer."
                        \o <<"'","."," ","m","a","x","_","r","e","s","u","l","t","s"," ","m","u","s","t"," ","b","e"," ","a"," ","p","o","s","i","t","i","v","e"," ","i","n","t","e","g","e","r",".">>, None, None,
                        \* "The 'max_results' parameter must be a valid positive integer.\n  BULLET Valid values: 1, 5, 10, 20, etc.\n  BULLET Default value is 5 if not specified\nYou provided: '"
                        Some(<<"T","h","e"," ","'","m","a","x","_","r","e","s","u","l","t","s","'"," ","p","a","r","a","m","e","t","e","r"," ","m","u","s","t"," ","b","e"," ","a"," ","v","a","l","i","d"," ","p","o","s","i","t","i","v","e"," ","i","n","t","e","g","e","r",".","\n"," "," ","BULLET"," ","V","a","l","i","d"," ","v","a","l","u","e","s",":"," ","1",","," ","5",","," ","1","0",","," ","2","0",","," ","e","t","c",".","\n"," "," ","BULLET"," ","D","e","f","a","u","l","t"," ","v","a","l","u","e"," ","i","s"," ","5"," ","i","f"," ","n","o","t"," ","s","p","e","c","i","f","i","e","d","\n","Y","o","u"," ","p","r","o","v","i","d","e","d",":"," ","'">>
                             \* "' (type: "
                             \o py_str(max_results) \o <<"'"," ","(","t","y","p","e",":"," ">>
                             \o TypeNames[max_results.t]
                             \* ")"
                             \o <<")">>))),
          max_results |-> None, output_format |-> None]
    ELSE
      LET n == int_of(max_results)[1]
          \* "json"
          format == IF output_format /= <<>> THEN lower(output_format) ELSE <<"j","s","o","n">>
      IN  IF n <= 0
          THEN [error |-> Some(MCPError_init("ValidationError",
                        \* "Invalid max_results: "
                        <<"I","n","v","a","l","i","d"," ","m","a","x","_","r","e","s","u","l","t","s",":"," ">> \o int_str(n)
                        \* ". max_results must be a positive integer."
                        \o <<"."," ","m","a","x","_","r","e","s","u","l","t","s"," ","m","u","s","t"," ","b","e"," ","a"," ","p","o","s","i","t","i","v","e"," ","i","n","t","e","g","e","r",".">>, None, None,
                        \* "The 'max_results' parameter must be a positive integer.\n  BULLET Valid values: 1, 5, 10, 20, etc.\n  BULLET Default value is 5 if not specified\nYou provided: "
                        Some(<<"T","h","e"," ","'","m","a","x","_","r","e","s","u","l","t","s","'"," ","p","a","r","a","m","e","t","e","r"," ","m","u","s","t"," ","b","e"," ","a"," ","p","o","s","i","t","i","v","e"," ","i","n","t","e","g","e","r",".","\n"," "," ","BULLET"," ","V","a","l","i","d"," ","v","a","l","u","e","s",":"," ","1",","," ","5",","," ","1","0",","," ","2","0",","," ","e","t","c",".","\n"," "," ","BULLET"," ","D","e","f","a","u","l","t"," ","v","a","l","u","e"," ","i","s"," ","5"," ","i","f"," ","n","o","t"," ","s","p","e","c","i","f","i","e","d","\n","Y","o","u"," ","p","r","o","v","i","d","e","d",":"," ">>
                             \o int_str(n)))),
                max_results |-> None, output_format |-> None]
          \* "json"
          \* "text"
          ELSE IF format \notin { <<"j","s","o","n">>, <<"t","e","x","t">> }
          THEN [error |-> Some(MCPError_init("ValidationError",
                        \* "Invalid output_format: '"
                        <<"I","n","v","a","l","i","d"," ","o","u","t","p","u","t","_","f","o","r","m","a","t",":"," ","'">> \o format
                        \* "'. output_format must be 'json' or 'text'."
                        \o <<"'","."," ","o","u","t","p","u","t","_","f","o","r","m","a","t"," ","m","u","s","t"," ","b","e"," ","'","j","s","o","n","'"," ","o","r"," ","'","t","e","x","t","'",".">>, None, None,
                        \* "The 'output_format' parameter accepts two values:\n  BULLET 'json' (default) - Returns results as a list of dictionaries\n  BULLET 'text' - Returns results as LLM-friendly formatted text\nYou provided: '"
                        Some(<<"T","h","e"," ","'","o","u","t","p","u","t","_","f","o","r","m","a","t","'"," ","p","a","r","a","m","e","t","e","r"," ","a","c","c","e","p","t","s"," ","t","w","o"," ","v","a","l","u","e","s",":","\n"," "," ","BULLET"," ","'","j","s","o","n","'"," ","(","d","e","f","a","u","l","t",")"," ","-"," ","R","e","t","u","r","n","s"," ","r","e","s","u","l","t","s"," ","a","s"," ","a"," ","l","i","s","t"," ","o","f"," ","d","i","c","t","i","o","n","a","r","i","e","s","\n"," "," ","BULLET"," ","'","t","e","x","t","'"," ","-"," ","R","e","t","u","r","n","s"," ","r","e","s","u","l","t","s"," ","a","s"," ","L","L","M","-","f","r","i","e","n","d","l","y"," ","f","o","r","m","a","t","t","e","d"," ","t","e","x","t","\n","Y","o","u"," ","p","r","o","v","i","d","e","d",":"," ","'">>
                             \* "'"
                             \o format \o <<"'">>))),
                max_results |-> None, output_format |-> None]
          ELSE [error |-> None, max_results |-> Some(PyInt(n)),
                output_format |-> Some(format)]

\* what the tool makes of the outcome of search_duckduckgo: the results as
\* they are or as text, an error as it is
duckduckgo_search_result(result, query, output_format) ==
    \* "text"
    IF result.kind = "returned" /\ output_format = <<"t","e","x","t">>
    THEN Returned(format_results_as_text(result.value[1], query.s))
    ELSE result

\* "wt-wt"
DEFAULT_REGION == <<"w","t","-","w","t">>

DEFAULT_TIMEOUT == 15

\* the tool duckduckgo_search(query, max_results, safesearch, output_format)
\* up to the point where it returns, raises or is suspended at the fallback
\* call; resp is what the primary call does
duckduckgo_search(query, max_results, safesearch, output_format, resp) ==
    LET p == duckduckgo_search_params(query, max_results, output_format)
    IN  IF p.error /= None
        THEN Step(<<>>, "done", None, Raised(p.error[1]), None)
        ELSE
          LET s == search_duckduckgo(query, p.max_results[1], safesearch,
                                     DEFAULT_REGION, DEFAULT_TIMEOUT, resp)
          IN  IF s.pc = "done"
              THEN Step(s.made, "done", None,
                        duckduckgo_search_result(s.outcome, query, p.output_format[1]),
                        s.policy)
              ELSE s

---------------------------------------------------------------------------
(* The inputs of the fetch classifier and of the fetch pipeline.           *)

\* the longest response body, in characters
MaxBody == 5

\* "Hello, world of pages"
Bodies == {SubSeq(<<"H","e","l","l","o",","," ","w","o","r","l","d"," ","o","f"," ","p","a","g","e","s">>, 1, n) : n \in 0..MaxBody}

FetchErrorTexts ==
    \* "certificate verify failed"
    \* "Failed to resolve 'r.jina.ai'"
    { <<"c","e","r","t","i","f","i","c","a","t","e"," ","v","e","r","i","f","y"," ","f","a","i","l","e","d">>, <<"F","a","i","l","e","d"," ","t","o"," ","r","e","s","o","l","v","e"," ","'","r",".","j","i","n","a",".","a","i","'">>,
      \* "Connection refused"
      \* "SSL: getaddrinfo failed, DNS, Connection refused"
      <<"C","o","n","n","e","c","t","i","o","n"," ","r","e","f","u","s","e","d">>, <<"S","S","L",":"," ","g","e","t","a","d","d","r","i","n","f","o"," ","f","a","i","l","e","d",","," ","D","N","S",","," ","C","o","n","n","e","c","t","i","o","n"," ","r","e","f","u","s","e","d">> }

RequestsClasses ==
    {"RequestException", "Timeout", "ConnectTimeout", "ReadTimeout", "SSLError",
     "ConnectionError", "ProxyError", "TooManyRedirects", "JSONDecodeError"}

StatusCodes == {429, 503, 404, 403, 500, 502, 599, 400, 418, 499, 600, 302}

\* "60"
\* "not-a-number"
\* " 7 "
RetryAfterHeaders == {None, Some(<<"6","0">>), Some(<<"n","o","t","-","a","-","n","u","m","b","e","r">>), Some(<<>>), Some(<<" ","7"," ">>)}

\* a response with an error status
StatusResponses ==
    \* "Error"
    \* "error page"
    {Response(c, <<"E","r","r","o","r">>, h, <<"e","r","r","o","r"," ","p","a","g","e">>, None, "json.JSONDecodeError") :
         c \in StatusCodes \ {429}, h \in {None}}
    \* "Too Many Requests"
    \cup {Response(429, <<"T","o","o"," ","M","a","n","y"," ","R","e","q","u","e","s","t","s">>, h, <<>>, None, "json.JSONDecodeError") :
              h \in RetryAfterHeaders}

\* the exceptions the classifier is given
RequestErrors ==
    {RequestError(c, t, None) : c \in RequestsClasses \cup {"HTTPError"}, t \in FetchErrorTexts}
    \* "status error"
    \cup {RequestError("HTTPError", <<"s","t","a","t","u","s"," ","e","r","r","o","r">>, Some(r)) : r \in StatusResponses}

ClassifyRequestArgs ==
    \* "https://a.io/p"
    [error : RequestErrors, url : {None, Some(<<>>), Some(<<"h","t","t","p","s",":","/","/","a",".","i","o","/","p">>)}]

JsonBodies ==
    \* "T"
    {JsonObject(Some(PyStr(b)), Some(<<"T">>)) : b \in Bodies}
    \* "T"
    \cup {JsonObject(None, Some(<<"T">>)), JsonObject(Some(PyNone), None), JsonArray}

\* a response with status 200: a body that is not JSON, or a JSON body
OkResponses ==
    \* "OK"
    {Response(200, <<"O","K">>, None, b, None, d) :
         b \in Bodies, d \in {"JSONDecodeError", "json.JSONDecodeError"}}
    \* "OK"
    \* "{}"
    \cup {Response(200, <<"O","K">>, None, <<"{","}">>, Some(j), "") : j \in JsonBodies}

\* what the provider does on the call of one fetch
GetResponses ==
    {GetReturns(r) : r \in OkResponses \cup StatusResponses}
    \cup {GetRaises(RequestError(c, t, None)) :
              c \in RequestsClasses \cup {"RuntimeError"}, t \in FetchErrorTexts}

FetchUrls ==
    \* "https://a.io/p?q=1"
    \* " https://a.io "
    \* "HTTP://A.io"
    {PyStr(<<"h","t","t","p","s",":","/","/","a",".","i","o","/","p","?","q","=","1">>), PyStr(<<" ","h","t","t","p","s",":","/","/","a",".","i","o"," ">>), PyStr(<<"H","T","T","P",":","/","/","A",".","i","o">>),
     \* "https://a.io/x\ty"
     \* "https://a.io/x y"
     \* "a.io"
     PyStr(<<"h","t","t","p","s",":","/","/","a",".","i","o","/","x","\t","y">>), PyStr(<<"h","t","t","p","s",":","/","/","a",".","i","o","/","x"," ","y">>), PyStr(<<"a",".","i","o">>),
     \* "ftp://a.io"
     \* "https://"
     \* "https://[a.io"
     PyStr(<<"f","t","p",":","/","/","a",".","i","o">>), PyStr(<<"h","t","t","p","s",":","/","/">>), PyStr(<<"h","t","t","p","s",":","/","/","[","a",".","i","o">>),
     \* "  "
     PyStr(<<" "," ">>), PyStr(<<>>), PyNone, PyInt(5)}

\* what a client of the search tool sends
ToolSearchArgs ==
    \* "cats"
    \* "My Backend"
    [query : {PyStr(<<"c","a","t","s">>), PyStr(<<"M","y"," ","B","a","c","k","e","n","d">>), PyStr(<<>>), PyNone, PyInt(7)},
     \* "5"
     \* "five"
     \* "-1"
     max_results : {PyInt(2), PyInt(0), PyStr(<<"5">>), PyStr(<<"f","i","v","e">>), PyStr(<<"-","1">>), PyNone},
     \* "off"
     \* "ON"
     safesearch : { <<"o","f","f">>, <<"O","N">> },
     \* "json"
     \* "TEXT"
     \* "xml"
     output_format : { <<"j","s","o","n">>, <<"T","E","X","T">>, <<"x","m","l">>, <<>> }]


FetchArgs ==
    [url : FetchUrls,
     \* "markdown"
     \* "json"
     \* "JSON"
     \* "xml"
     output_format : { <<"m","a","r","k","d","o","w","n">>, <<"j","s","o","n">>, <<"J","S","O","N">>, <<"x","m","l">> },
     max_length : {PyNone, PyInt(3), PyInt(0)},
     with_images : BOOLEAN]

ToolFetchArgs ==
    [url : FetchUrls,
     \* "markdown"
     \* "json"
     \* "JSON"
     \* "xml"
     format : { <<"m","a","r","k","d","o","w","n">>, <<"j","s","o","n">>, <<"J","S","O","N">>, <<"x","m","l">> },
     \* "3"
     \* "all"
     max_length : {PyNone, PyInt(3), PyInt(0), PyInt(-1), PyStr(<<"3">>), PyStr(<<"a","l","l">>)},
     with_images : {FALSE}]

---------------------------------------------------------------------------
(* The fetch state machine, the fetch classifier on its own, and the       *)
(* operations together.                                                    *)

FetchInit == \E a \in FetchArgs : Begin("fetch_url", a)

ToolFetchInit == \E a \in ToolFetchArgs : Begin("jina_fetch", a)

ClassifyRequestInit == \E a \in ClassifyRequestArgs : Begin("classify_request_error", a)

\* fetch_url(url, output_format, max_length, with_images)
FetchUrl ==
    /\ op = "fetch_url"
    /\ pc = "start"
    /\ \E resp \in GetResponses :
         \E s \in {fetch_url(args.url, args.output_format, args.max_length,
                             args.with_images, resp)} :
             /\ Take(s)
             /\ calls' = calls \o s.made
             /\ upstream' = IF s.made = <<>> THEN upstream ELSE Append(upstream, resp)
    /\ UNCHANGED <<op, args>>

\* jina_fetch(url, format, max_length, with_images)
JinaFetch ==
    /\ op = "jina_fetch"
    /\ pc = "start"
    /\ \E resp \in GetResponses :
         \E s \in {jina_fetch(args.url, args.format, args.max_length,
                              args.with_images, resp)} :
             /\ Take(s)
             /\ calls' = calls \o s.made
             /\ upstream' = IF s.made = <<>> THEN upstream ELSE Append(upstream, resp)
    /\ UNCHANGED <<op, args>>

ToolSearchInit == \E a \in ToolSearchArgs : Begin("duckduckgo_search", a)

\* the tool duckduckgo_search(query, max_results, safesearch, output_format)
ToolSearchPrimary ==
    /\ op = "duckduckgo_search"
    /\ pc = "start"
    /\ \E resp \in SearchResponses :
         \E s \in {duckduckgo_search(args.query, args.max_results, args.safesearch,
                                     args.output_format, resp)} :
             /\ Take(s)
             /\ calls' = calls \o s.made
             /\ upstream' = IF s.made = <<>> THEN upstream ELSE Append(upstream, resp)
    /\ UNCHANGED <<op, args>>

\* the tool from the retry of _try_fallback_search on
ToolSearchFallback ==
    /\ op = "duckduckgo_search"
    /\ pc = "fallback"
    /\ \E resp \in FallbackResponses :
         \E s \in {try_fallback_search_retry(frame[1], resp)} :
             /\ pc' = s.pc
             /\ frame' = s.frame
             /\ policy' = s.policy
             /\ outcome' = duckduckgo_search_result(
                               s.outcome, args.query,
                               duckduckgo_search_params(args.query, args.max_results,
                                                        args.output_format).output_format[1])
             /\ calls' = calls \o s.made
             /\ upstream' = Append(upstream, resp)
    /\ UNCHANGED <<op, args>>

\* the arguments the validator is given
ValidateArgs ==
    \* "cats"
    \* "  "
    [query : {PyStr(<<"c","a","t","s">>), PyStr(<<" "," ">>), PyStr(<<>>), PyNone, PyInt(7)},
     \* "5"
     max_results : {PyInt(2), PyInt(1), PyInt(0), PyInt(-3), PyStr(<<"5">>), PyNone},
     \* "on"
     \* "moderate"
     \* "off"
     \* "ON"
     \* "strict"
     safesearch : { <<"o","n">>, <<"m","o","d","e","r","a","t","e">>, <<"o","f","f">>, <<"O","N">>, <<"s","t","r","i","c","t">>, <<>> }]

ValidateInit == \E a \in ValidateArgs : Begin("validate_search_params", a)

\* _validate_search_params(query, max_results, safesearch)
ValidateSearchParams ==
    /\ op = "validate_search_params"
    /\ pc = "start"
    /\ pc' = "done"
    /\ \E v \in {validate_search_params(args.query, args.max_results, args.safesearch)} :
         outcome' = IF v.error /= None THEN Raised(v.error[1])
                    ELSE Returned(v.safesearch[1])
    /\ UNCHANGED <<op, args, calls, upstream, frame, policy>>

SpecValidate == ValidateInit /\ [][ValidateSearchParams]_vars

\* the max_length values truncation is given: none, or an integer, which the
\* command line passes on as it is, negative and zero included
MaxCut == 2

TruncateArgs ==
    [content : Bodies,
     max_length : {PyNone} \cup {PyInt(n) : n \in (0 - MaxCut)..(MaxBody + 1)}]

TruncateInit == \E a \in TruncateArgs : Begin("truncate_content", a)

\* _truncate_content(content, max_length)
TruncateContent ==
    /\ op = "truncate_content"
    /\ pc = "start"
    /\ pc' = "once"
    /\ outcome' = Returned(<<truncate_content(args.content, args.max_length)>>)
    /\ UNCHANGED <<op, args, calls, upstream, frame, policy>>

\* _truncate_content applied, with the same max_length, to what it returned
TruncateContentAgain ==
    /\ op = "truncate_content"
    /\ pc = "once"
    /\ pc' = "twice"
    /\ outcome' = Returned(Append(outcome.value[1],
                      truncate_content(outcome.value[1][1], args.max_length)))
    /\ UNCHANGED <<op, args, calls, upstream, frame, policy>>

SpecTruncate == TruncateInit /\ [][TruncateContent \/ TruncateContentAgain]_vars

---------------------------------------------------------------------------
(* The command line (cli.py): the handlers of the search and the fetch     *)
(* subcommands. What a handler prints is kept as the texts given to print, *)
(* on stdout and on stderr, and the records it logs.                       *)

\* s.split("\n")
RECURSIVE split_lines(_)
split_lines(s) ==
    LET i == find_char(s, {"\n"})
    IN  IF i = 0 THEN <<s>>
        ELSE <<SubSeq(s, 1, i - 1)>> \o split_lines(SubSeq(s, i + 1, Len(s)))

\* type(error).__name__ as a text
type_name(cls) ==
    \* "MCPError"
    CASE cls = "MCPError" -> <<"M","C","P","E","r","r","o","r">>
      \* "NetworkError"
      [] cls = "NetworkError" -> <<"N","e","t","w","o","r","k","E","r","r","o","r">>
      \* "ConnectionError"
      [] cls = "ConnectionError" -> <<"C","o","n","n","e","c","t","i","o","n","E","r","r","o","r">>
      \* "TimeoutError"
      [] cls = "TimeoutError" -> <<"T","i","m","e","o","u","t","E","r","r","o","r">>
      \* "DNSError"
      [] cls = "DNSError" -> <<"D","N","S","E","r","r","o","r">>
      \* "HTTPError"
      [] cls = "HTTPError" -> <<"H","T","T","P","E","r","r","o","r">>
      \* "RateLimitError"
      [] cls = "RateLimitError" -> <<"R","a","t","e","L","i","m","i","t","E","r","r","o","r">>
      \* "ServiceUnavailableError"
      [] cls = "ServiceUnavailableError" -> <<"S","e","r","v","i","c","e","U","n","a","v","a","i","l","a","b","l","e","E","r","r","o","r">>
      \* "ValidationError"
      [] cls = "ValidationError" -> <<"V","a","l","i","d","a","t","i","o","n","E","r","r","o","r">>
      \* "InvalidURLError"
      [] cls = "InvalidURLError" -> <<"I","n","v","a","l","i","d","U","R","L","E","r","r","o","r">>
      \* "ContentParsingError"
      [] cls = "ContentParsingError" -> <<"C","o","n","t","e","n","t","P","a","r","s","i","n","g","E","r","r","o","r">>
      \* "ServerStartupError"
      [] cls = "ServerStartupError" -> <<"S","e","r","v","e","r","S","t","a","r","t","u","p","E","r","r","o","r">>
      \* "DependencyError"
      [] cls = "DependencyError" -> <<"D","e","p","e","n","d","e","n","c","y","E","r","r","o","r">>
      \* "ConfigurationError"
      [] cls = "ConfigurationError" -> <<"C","o","n","f","i","g","u","r","a","t","i","o","n","E","r","r","o","r">>
      \* "PortBindingError"
      [] cls = "PortBindingError" -> <<"P","o","r","t","B","i","n","d","i","n","g","E","r","r","o","r">>
      \* "ValueError"
      [] cls = "ValueError" -> <<"V","a","l","u","e","E","r","r","o","r">>
      \* "RuntimeError"
      [] cls = "RuntimeError" -> <<"R","u","n","t","i","m","e","E","r","r","o","r">>
      \* "AttributeError"
      [] cls = "AttributeError" -> <<"A","t","t","r","i","b","u","t","e","E","r","r","o","r">>

\* the lines of traceback.format_exception for an exception: the header and
\* the line naming the exception (the frames between them are the
\* interpreter's and are left out)
format_exception(error) ==
    \* "Traceback (most recent call last):"
    << <<"T","r","a","c","e","b","a","c","k"," ","(","m","o","s","t"," ","r","e","c","e","n","t"," ","c","a","l","l"," ","l","a","s","t",")",":">>,
       IF error.cls \in TaxonomyClasses
       \* "duckduckgo_mcp.exceptions."
       \* ": "
       THEN <<"d","u","c","k","d","u","c","k","g","o","_","m","c","p",".","e","x","c","e","p","t","i","o","n","s",".">> \o type_name(error.cls) \o <<":"," ">> \o MCPError_str(error)
       ELSE IF error.message = <<>> THEN type_name(error.cls)
       \* ": "
       ELSE type_name(error.cls) \o <<":"," ">> \o error.message >>

\* every line of a list with two spaces before it
\* "  "
indented(lines) == [i \in 1..Len(lines) |-> <<" "," ">> \o lines[i]]

\* _format_error(error, debug)
format_error(error, debug) ==
    join_lines(
      IF error.cls \in TaxonomyClasses
      \* "Error ["
      \* ":"
      \* "]"
      THEN << <<"E","r","r","o","r"," ","[">> \o upper(error.category) \o <<":">> \o error.error_code \o <<"]">>,
              <<>>,
              \* "  "
              <<" "," ">> \o error.message,
              <<>>,
              \* "What to do:"
              <<"W","h","a","t"," ","t","o"," ","d","o",":">> >>
           \o indented(split_lines(guidance(error)))
           \o (IF debug
               THEN << <<>>,
                       \* "Debug Information:"
                       <<"D","e","b","u","g"," ","I","n","f","o","r","m","a","t","i","o","n",":">>,
                       \* "  Exception type: "
                       <<" "," ","E","x","c","e","p","t","i","o","n"," ","t","y","p","e",":"," ">> \o type_name(error.cls),
                       \* "  Error code: "
                       <<" "," ","E","r","r","o","r"," ","c","o","d","e",":"," ">> \o error.error_code,
                       \* "  Category: ErrorCategory."
                       <<" "," ","C","a","t","e","g","o","r","y",":"," ","E","r","r","o","r","C","a","t","e","g","o","r","y",".">> \o upper(error.category),
                       <<>>,
                       \* "Stack trace:"
                       <<"S","t","a","c","k"," ","t","r","a","c","e",":">> >>
                    \o indented(split_lines(rstrip(join_lines(format_exception(error)))))
               ELSE <<>>)
      \* "Error ["
      \* "]"
      ELSE << <<"E","r","r","o","r"," ","[">> \o type_name(error.cls) \o <<"]">>,
              <<>>,
              \* "  "
              <<" "," ">> \o (IF error.message /= <<>> THEN error.message
                         \* "An unexpected error occurred"
                         ELSE <<"A","n"," ","u","n","e","x","p","e","c","t","e","d"," ","e","r","r","o","r"," ","o","c","c","u","r","r","e","d">>),
              <<>> >>
           \o (IF debug
               \* "Debug Information:"
               THEN << <<"D","e","b","u","g"," ","I","n","f","o","r","m","a","t","i","o","n",":">>,
                       \* "  Exception type: "
                       <<" "," ","E","x","c","e","p","t","i","o","n"," ","t","y","p","e",":"," ">> \o type_name(error.cls),
                       <<>>,
                       \* "Stack trace:"
                       <<"S","t","a","c","k"," ","t","r","a","c","e",":">> >>
                    \o indented(split_lines(rstrip(join_lines(format_exception(error)))))
               \* "What to do:"
               ELSE << <<"W","h","a","t"," ","t","o"," ","d","o",":">>,
                       \* "  Please try again. If the problem persists, run with --debug"
                       <<" "," ","P","l","e","a","s","e"," ","t","r","y"," ","a","g","a","i","n","."," ","I","f"," ","t","h","e"," ","p","r","o","b","l","e","m"," ","p","e","r","s","i","s","t","s",","," ","r","u","n"," ","w","i","t","h"," ","-","-","d","e","b","u","g">>,
                       \* "  for more details, or report this issue."
                       <<" "," ","f","o","r"," ","m","o","r","e"," ","d","e","t","a","i","l","s",","," ","o","r"," ","r","e","p","o","r","t"," ","t","h","i","s"," ","i","s","s","u","e",".">> >>))

\* a text as json.dumps(..., ensure_ascii=False) writes it
RECURSIVE json_escaped(_)
json_escaped(s) ==
    IF s = <<>> THEN <<>>
    ELSE (IF Head(s) = "\"" THEN <<"\\", "\"">>
          ELSE IF Head(s) = "\\" THEN <<"\\", "\\">>
          ELSE IF Head(s) = "\n" THEN <<"\\", "n">>
          ELSE IF Head(s) = "\t" THEN <<"\\", "t">>
          ELSE <<Head(s)>>)
         \o json_escaped(Tail(s))

json_string(s) == <<"\"">> \o json_escaped(s) \o <<"\"">>

\* the lines of an object with the given members, as json.dumps(..., indent=2)
\* writes it at a depth of pad
json_object_lines(members, pad) ==
    \* "{}"
    IF members = <<>> THEN <<pad \o <<"{","}">>>>
    \* "{"
    ELSE <<pad \o <<"{">>>>
         \o [i \in 1..Len(members) |->
                \* "  "
                pad \o <<" "," ">> \o members[i]
                    \* ","
                    \o (IF i < Len(members) THEN <<",">> ELSE <<>>)]
         \* "}"
         \o <<pad \o <<"}">>>>

\* every line of a list but the last with a comma after its last line
RECURSIVE json_items(_)
json_items(items) ==
    IF items = <<>> THEN <<>>
    ELSE IF Len(items) = 1 THEN items[1]
    ELSE [i \in 1..Len(items[1]) |->
             \* ","
             items[1][i] \o (IF i = Len(items[1]) THEN <<",">> ELSE <<>>)]
         \o json_items(Tail(items))

\* json.dumps(results, indent=2, ensure_ascii=False) for the results of a
\* search
json_dumps_results(results) ==
    \* "[]"
    IF results = <<>> THEN <<"[","]">>
    ELSE join_lines(
           \* "["
           << <<"[">> >>
           \o json_items([i \in 1..Len(results) |->
                  json_object_lines(
                      \* "title"
                      \* ": "
                      << json_string(<<"t","i","t","l","e">>) \o <<":"," ">> \o json_string(results[i].title),
                         \* "url"
                         \* ": "
                         json_string(<<"u","r","l">>) \o <<":"," ">> \o json_string(results[i].url),
                         \* "snippet"
                         \* ": "
                         json_string(<<"s","n","i","p","p","e","t">>) \o <<":"," ">> \o json_string(results[i].snippet) >>,
                      \* "  "
                      <<" "," ">>)])
           \* "]"
           \o << <<"]">> >>)

\* json.dumps(result, indent=2, ensure_ascii=False) for what a fetch in the
\* json format returns
json_dumps_fetched(result) ==
    \* "[]"
    IF result.kind = "list" THEN <<"[","]">>
    ELSE join_lines(json_object_lines(
           (IF result.content = None THEN <<>>
            \* "content"
            \* ": "
            ELSE << json_string(<<"c","o","n","t","e","n","t">>) \o <<":"," ">>
                    \o (IF result.content[1].t = "str"
                        THEN json_string(result.content[1].s)
                        ELSE IF result.content[1].t = "int"
                        THEN int_str(result.content[1].n)
                        \* "null"
                        ELSE <<"n","u","l","l">>) >>)
           \o (IF result.title = None THEN <<>>
               \* "title"
               \* ": "
               ELSE << json_string(<<"t","i","t","l","e">>) \o <<":"," ">> \o json_string(result.title[1]) >>),
           <<>>))

\* what a handler has done when it returns: its exit code, the texts it
\* printed and the records it logged
Exit(exit_code, stdout, stderr, log) ==
    [exit_code |-> exit_code, stdout |-> stdout, stderr |-> stderr, log |-> log]

\* the except clauses of _handle_search and _handle_fetch; command is
\* "Search" or "Fetch"
handle_error(command, e, debug) ==
    IF e.cls \in TaxonomyClasses
    THEN Exit(1, <<>>, <<format_error(e, debug)>>,
              IF debug
              THEN <<[level |-> "DEBUG",
                      \* " MCPError: "
                      \* ": "
                      message |-> command \o <<" ","M","C","P","E","r","r","o","r",":"," ">> \o type_name(e.cls) \o <<":"," ">> \o e.message]>>
              ELSE <<>>)
    ELSE Exit(1, <<>>, <<format_error(e, debug)>>,
              <<[level |-> "ERROR",
                 \* " error: "
                 message |-> command \o <<" ","e","r","r","o","r",":"," ">> \o e.message]>>)

\* a handler that takes an error for a success
handle_search_exit_zero(results, output_format, debug) ==
    Exit(0,
         IF results.kind /= "returned" THEN <<>>
         \* "text"
         ELSE IF output_format = <<"t","e","x","t">> THEN <<results.value[1]>>
         ELSE <<json_dumps_results(results.value[1])>>,
         IF results.kind = "returned" THEN <<>>
         ELSE <<format_error(results.error[1], debug)>>,
         <<>>)

\* _handle_search(args) once duckduckgo_search has returned results or
\* raised
handle_search(results, output_format, debug) ==
    IF results.kind = "returned"
    THEN Exit(0,
              \* "text"
              IF output_format = <<"t","e","x","t">> THEN <<results.value[1]>>
              ELSE <<json_dumps_results(results.value[1])>>,
              <<>>, <<>>)
    \* "Search"
    ELSE handle_error(<<"S","e","a","r","c","h">>, results.error[1], debug)

\* _handle_fetch(args) once fetch_url has returned a result or raised
handle_fetch(result, format, debug) ==
    IF result.kind = "returned"
    THEN Exit(0,
              \* "json"
              IF format = <<"j","s","o","n">> THEN <<json_dumps_fetched(result.value[1])>>
              ELSE <<result.value[1]>>,
              <<>>, <<>>)
    \* "Fetch"
    ELSE handle_error(<<"F","e","t","c","h">>, result.error[1], debug)

\* what argparse hands to the handlers: the words of the query, an integer
\* max_results, one of the safesearch and output_format choices; a URL, one
\* of the format choices, an integer max_length or none
CliSearchArgs ==
    \* "cats"
    \* "my"
    \* "backend"
    [query : { <<<<"c","a","t","s">>>>, <<<<"m","y">>, <<"b","a","c","k","e","n","d">>>> },
     max_results : {2, 0},
     \* "off"
     safesearch : { <<"o","f","f">> },
     \* "json"
     \* "text"
     output_format : { <<"j","s","o","n">>, <<"t","e","x","t">> },
     debug : BOOLEAN]

CliFetchArgs ==
    \* "https://a.io/p?q=1"
    \* "https://[a.io"
    \* "a.io"
    [url : { <<"h","t","t","p","s",":","/","/","a",".","i","o","/","p","?","q","=","1">>, <<"h","t","t","p","s",":","/","/","[","a",".","i","o">>, <<"a",".","i","o">> },
     \* "markdown"
     \* "json"
     format : { <<"m","a","r","k","d","o","w","n">>, <<"j","s","o","n">> },
     max_length : {PyNone, PyInt(3)},
     with_images : {FALSE},
     debug : BOOLEAN]

CliInit ==
    \/ \E a \in CliSearchArgs : Begin("cli_search", a)
    \/ \E a \in CliFetchArgs : Begin("cli_fetch", a)

\* " ".join(args.query)
RECURSIVE join_words(_)
join_words(words) ==
    IF Len(words) = 1 THEN words[1]
    \* " "
    ELSE words[1] \o <<" ">> \o join_words(Tail(words))

\* a step of the tool made for _handle_search: when the tool is over, the
\* handler prints and returns, keeping what the tool gave it
HandleSearchTake(s) ==
    /\ pc' = s.pc
    /\ policy' = s.policy
    /\ IF s.pc = "done"
       THEN /\ frame' = Some(s.outcome)
            /\ outcome' = Returned(handle_search(s.outcome, args.output_format, args.debug))
       ELSE /\ frame' = s.frame
            /\ outcome' = s.outcome

\* what the provider does on the primary call of a search from the command
\* line: the error texts are those of the fallback call
CliSearchResponses ==
    {SearchReturns(l) : l \in RawListsOf(MaxRaw)}
    \cup {SearchRaises(e) : e \in SearchExceptions(TextsOf(MaxFallbackFrags))}

\* _handle_search(args) up to the return of the primary call
HandleSearch ==
    /\ op = "cli_search"
    /\ pc = "start"
    /\ \E resp \in CliSearchResponses :
         \E s \in {duckduckgo_search(PyStr(join_words(args.query)), PyInt(args.max_results),
                                     args.safesearch, args.output_format, resp)} :
             /\ HandleSearchTake(s)
             /\ calls' = calls \o s.made
             /\ upstream' = IF s.made = <<>> THEN upstream ELSE Append(upstream, resp)
    /\ UNCHANGED <<op, args>>

\* _handle_search(args) from the retry of _try_fallback_search on
HandleSearchFallback ==
    /\ op = "cli_search"
    /\ pc = "fallback"
    /\ \E resp \in FallbackResponses :
         \E s \in {try_fallback_search_retry(frame[1], resp)} :
             /\ HandleSearchTake(
                  [s EXCEPT !.outcome =
                      duckduckgo_search_result(s.outcome, PyStr(join_words(args.query)),
                                               args.output_format)])
             /\ calls' = calls \o s.made
             /\ upstream' = Append(upstream, resp)
    /\ UNCHANGED <<op, args>>

\* _handle_fetch(args)
HandleFetch ==
    /\ op = "cli_fetch"
    /\ pc = "start"
    /\ \E resp \in GetResponses :
         \E s \in {fetch_url(PyStr(args.url), args.format, args.max_length,
                             args.with_images, resp)} :
             /\ pc' = s.pc
             /\ policy' = s.policy
             /\ frame' = Some(s.outcome)
             /\ outcome' = Returned(handle_fetch(s.outcome, args.format, args.debug))
             /\ calls' = calls \o s.made
             /\ upstream' = IF s.made = <<>> THEN upstream ELSE Append(upstream, resp)
    /\ UNCHANGED <<op, args>>

SpecCli == CliInit /\ [][HandleSearch \/ HandleSearchFallback \/ HandleFetch]_vars

---------------------------------------------------------------------------
(* The construction of the errors of the taxonomy (exceptions.py).         *)

\* the arguments a constructor is given: the class, and the optional
\* error_code, guidance, and retry_after or port
ConstructArgs ==
    [cls : TaxonomyClasses,
     \* "Boom"
     message : { <<"B","o","o","m">>, <<>> },
     \* "E1"
     error_code : {None, Some(<<"E","1">>)},
     \* "Do this.\nThen that."
     guidance : {None, Some(<<>>), Some(<<"D","o"," ","t","h","i","s",".","\n","T","h","e","n"," ","t","h","a","t",".">>)},
     extra : {None, Some(7)}]

ConstructInit == \E a \in ConstructArgs : Begin("construct", a)

\* cls(message, ..., error_code=..., guidance=...): the extra argument is the
\* retry_after of a RateLimitError, the port of a PortBindingError and the
\* status_code of the other HTTP errors
construct(a) ==
    CASE a.cls = "RateLimitError" ->
           RateLimitError_init(a.message, a.extra, None, a.error_code, None, a.guidance)
      [] a.cls = "PortBindingError" ->
           PortBindingError_init(a.message, a.extra, a.error_code, None, a.guidance)
      [] a.cls = "ServiceUnavailableError" ->
           ServiceUnavailableError_init(a.message, a.extra, a.error_code, None, a.guidance)
      [] a.cls = "HTTPError" ->
           HTTPError_init("HTTPError", a.message, a.extra, a.error_code, None, a.guidance)
      [] a.cls = "InvalidURLError" ->
           InvalidURLError_init(a.message, None, a.error_code, None, a.guidance)
      [] a.cls = "ContentParsingError" ->
           ContentParsingError_init(a.message, None, a.error_code, None, a.guidance)
      [] OTHER -> MCPError_init(a.cls, a.message, a.error_code, None, a.guidance)

\* the construction of an error and the reading of its guidance property
Construct ==
    /\ op = "construct"
    /\ pc = "start"
    /\ pc' = "done"
    /\ outcome' = Returned([error |-> construct(args), guidance |-> guidance(construct(args))])
    /\ UNCHANGED <<op, args, calls, upstream, frame, policy>>

SpecTaxonomy == ConstructInit /\ [][Construct]_vars

\* _classify_request_error(error, url)
ClassifyRequestError ==
    /\ op = "classify_request_error"
    /\ pc = "start"
    /\ pc' = "done"
    /\ outcome' = Returned(classify_request_error(args.error, args.url))
    /\ UNCHANGED <<op, args, calls, upstream, frame, policy>>

SpecClassifyRequest == ClassifyRequestInit /\ [][ClassifyRequestError]_vars

Init == SearchInit \/ ToolSearchInit \/ FetchInit \/ ToolFetchInit

Next ==
    \/ SearchPrimary
    \/ TryFallbackRetry
    \/ ToolSearchPrimary
    \/ ToolSearchFallback
    \/ FetchUrl
    \/ JinaFetch

Spec == Init /\ [][Next]_vars

---------------------------------------------------------------------------
(* Properties of the search fallback policy.                               *)

\* the number of calls made before the fallback policy is entered
CallsBeforePolicy == IF op = "search" THEN 1 ELSE 0

\* TRUE when the fallback policy has been entered in this invocation
PolicyEntered == policy /= None

\* the classified primary error the fallback policy was given
PrimaryError == policy[1]

\* the arguments of the primary attempt
PrimaryAttempt ==
    IF op = "try_fallback"
    THEN [query |-> args.query, region |-> args.region, safesearch |-> args.safesearch,
          max_results |-> args.max_results, timeout |-> args.timeout]
    ELSE [query |-> calls[1].query, region |-> calls[1].region,
          safesearch |-> calls[1].safesearch, max_results |-> calls[1].max_results,
          timeout |-> calls[1].timeout]

\* "backend"
HasBackendWord(message) == Contains(lower(message), <<"b","a","c","k","e","n","d">>)

FallbackEligible ==
    /\ PolicyEntered
    /\ PrimaryError.cls /= "RateLimitError"
    /\ ~HasBackendWord(PrimaryError.message)

\* C1: when the classified primary error is neither the rate-limit variant
\* nor has a message containing "backend", the policy makes exactly one more
\* call, to backend "brave" with the query, region, safesearch, max_results
\* and timeout of the primary attempt; when that call succeeds its results
\* are returned and nothing is raised.
C1_FallbackOneCallToBrave ==
    FallbackEligible =>
        /\ pc \in {"fallback", "done"}
        /\ pc = "fallback" => Len(calls) = CallsBeforePolicy /\ outcome = Pending
        /\ pc = "done" =>
             LET k == CallsBeforePolicy + 1
             IN  /\ Len(calls) = k
                 \* "brave"
                 /\ calls[k].backend = <<"b","r","a","v","e">>
                 /\ [f \in DOMAIN PrimaryAttempt |-> calls[k][f]] = PrimaryAttempt
                 /\ upstream[k].kind = "return" =>
                      outcome = Returned(execute_search_results(upstream[k].results))

C1_Witness ==
    /\ op = "search"
    /\ pc = "done"
    /\ FallbackEligible
    /\ Len(calls) = 2
    /\ upstream[2].kind = "return"
    /\ outcome.kind = "returned"
    /\ Len(outcome.value[1]) = 2
    \* "us-en"
    /\ args.region = <<"u","s","-","e","n">>

\* C2: when the classified primary error is the rate-limit variant the
\* policy makes no call and raises that same error; a search whose primary
\* attempt fails with a rate-limit-classified upstream error makes exactly
\* one call in total and raises a rate-limit error.
C2_RateLimitNoFallback ==
    (PolicyEntered /\ PrimaryError.cls = "RateLimitError") =>
        /\ pc = "done"
        /\ Len(calls) = CallsBeforePolicy
        /\ outcome = Raised(PrimaryError)
        /\ op = "search" => Len(calls) = 1 /\ outcome.error[1].cls = "RateLimitError"

\* C2, the search as a whole: a primary upstream exception whose lower-cased
\* text has a rate-limit indicator ends the search after that one call with
\* a rate-limit error
C2_RateLimitedSearch ==
    (/\ op = "search"
     /\ Len(upstream) >= 1
     /\ upstream[1].kind = "raise"
     /\ upstream[1].exc[1].type = "DDGSException"
     /\ AnyIn(rate_limit_indicators, lower(upstream[1].exc[1].text))) =>
        /\ pc = "done"
        /\ Len(calls) = 1
        /\ outcome.kind = "raised"
        /\ isinstance(outcome.error[1], "RateLimitError")

C2_RateLimit == C2_RateLimitNoFallback /\ C2_RateLimitedSearch

C2_Witness ==
    /\ op = "search"
    /\ pc = "done"
    /\ Len(upstream) = 1
    /\ upstream[1].kind = "raise"
    /\ upstream[1].exc[1] =
         \* "temporarily blocked"
         [type |-> "DDGSException", text |-> <<"t","e","m","p","o","r","a","r","i","l","y"," ","b","l","o","c","k","e","d">>, err |-> None]
    /\ ~HasBackendWord(args.query.s)
    /\ outcome.kind = "raised"
    /\ outcome.error[1].cls = "RateLimitError"

\* C3: when the classified primary error's message contains "backend" in
\* any letter case the policy makes no call and raises that same error,
\* unchanged in variant, message and guidance.
C3_BackendWordNoFallback ==
    (PolicyEntered /\ HasBackendWord(PrimaryError.message)) =>
        /\ pc = "done"
        /\ Len(calls) = CallsBeforePolicy
        /\ outcome.kind = "raised"
        /\ outcome.error[1] = PrimaryError
        /\ outcome.error[1].cls = PrimaryError.cls
        /\ outcome.error[1].message = PrimaryError.message
        /\ guidance(outcome.error[1]) = guidance(PrimaryError)

\* a primary error whose message has the word only with a capital letter
C3_Witness ==
    /\ pc = "done"
    /\ PolicyEntered
    /\ PrimaryError.cls /= "RateLimitError"
    /\ HasBackendWord(PrimaryError.message)
    \* "backend"
    /\ ~Contains(PrimaryError.message, <<"b","a","c","k","e","n","d">>)
    /\ outcome.kind = "raised"

\* C5: when the primary attempt fails and the fallback call fails with an
\* upstream search exception, the error raised is of network category and
\* its message is "Search failed with both backends. Primary (duckduckgo):
\* {primary.message}. Fallback (brave): {fallback.message}", whatever the
\* two failures were classified as.
C5_CombinedFailure ==
    (pc = "done" /\ PolicyEntered /\ Len(calls) = CallsBeforePolicy + 1
        /\ upstream[Len(upstream)].kind = "raise"
        /\ upstream[Len(upstream)].exc[1].type = "DDGSException") =>
        LET fallback_message ==
                classify_search_error(upstream[Len(upstream)].exc[1],
                                      \* "brave"
                                      query_text(args.query), Some(<<"b","r","a","v","e">>)).message
            e == outcome.error[1]
        IN  /\ outcome.kind = "raised"
            \* "network"
            /\ e.category = <<"n","e","t","w","o","r","k">>
            /\ e.message =
                 \* "Search failed with both backends. Primary (duckduckgo): "
                 <<"S","e","a","r","c","h"," ","f","a","i","l","e","d"," ","w","i","t","h"," ","b","o","t","h"," ","b","a","c","k","e","n","d","s","."," ","P","r","i","m","a","r","y"," ","(","d","u","c","k","d","u","c","k","g","o",")",":"," ">>
                 \* ". Fallback (brave): "
                 \o PrimaryError.message \o <<"."," ","F","a","l","l","b","a","c","k"," ","(","b","r","a","v","e",")",":"," ">> \o fallback_message
            \* "both backends"
            /\ Contains(e.message, <<"b","o","t","h"," ","b","a","c","k","e","n","d","s">>)
            /\ Contains(e.message, PrimaryError.message)
            /\ Contains(e.message, fallback_message)

\* both attempts fail, the second with a text the classifier puts in its
\* default branch
C5_Witness ==
    /\ op = "search"
    /\ pc = "done"
    /\ Len(calls) = 2
    /\ upstream[2].kind = "raise"
    \* "Oops"
    /\ upstream[2].exc[1] = [type |-> "DDGSException", text |-> <<"O","o","p","s">>, err |-> None]
    /\ outcome.kind = "raised"
    \* "using backend 'brave': Oops"
    /\ Contains(outcome.error[1].message, <<"u","s","i","n","g"," ","b","a","c","k","e","n","d"," ","'","b","r","a","v","e","'",":"," ","O","o","p","s">>)

\* TRUE when the fallback call raised something that is not an upstream
\* search exception
FallbackFailedUnexpectedly ==
    /\ pc = "done"
    /\ PolicyEntered
    /\ Len(calls) = CallsBeforePolicy + 1
    /\ upstream[Len(upstream)].kind = "raise"
    /\ upstream[Len(upstream)].exc[1].type /= "DDGSException"

---------------------------------------------------------------------------
(* Properties of the search classifier.                                    *)

\* the keyword sets of the classifier in their priority order
KeywordSets ==
    \* "rate"
    \* "ratelimit"
    \* "too many requests"
    \* "429"
    \* "blocked"
    << << <<"r","a","t","e">>, <<"r","a","t","e","l","i","m","i","t">>, <<"t","o","o"," ","m","a","n","y"," ","r","e","q","u","e","s","t","s">>, <<"4","2","9">>, <<"b","l","o","c","k","e","d">>,
          \* "temporarily blocked"
          \* "please wait"
          \* "try again later"
          <<"t","e","m","p","o","r","a","r","i","l","y"," ","b","l","o","c","k","e","d">>, <<"p","l","e","a","s","e"," ","w","a","i","t">>, <<"t","r","y"," ","a","g","a","i","n"," ","l","a","t","e","r">>,
          \* "exceeded"
          \* "throttle"
          <<"e","x","c","e","e","d","e","d">>, <<"t","h","r","o","t","t","l","e">> >>,
       \* "timeout"
       \* "timed out"
       \* "time out"
       \* "request timeout"
       << <<"t","i","m","e","o","u","t">>, <<"t","i","m","e","d"," ","o","u","t">>, <<"t","i","m","e"," ","o","u","t">>, <<"r","e","q","u","e","s","t"," ","t","i","m","e","o","u","t">> >>,
       \* "connection"
       \* "network"
       \* "connect failed"
       \* "unable to connect"
       << <<"c","o","n","n","e","c","t","i","o","n">>, <<"n","e","t","w","o","r","k">>, <<"c","o","n","n","e","c","t"," ","f","a","i","l","e","d">>, <<"u","n","a","b","l","e"," ","t","o"," ","c","o","n","n","e","c","t">>,
          \* "no internet"
          \* "dns"
          \* "resolve"
          \* "unreachable"
          \* "refused"
          <<"n","o"," ","i","n","t","e","r","n","e","t">>, <<"d","n","s">>, <<"r","e","s","o","l","v","e">>, <<"u","n","r","e","a","c","h","a","b","l","e">>, <<"r","e","f","u","s","e","d">> >>,
       \* "503"
       \* "service unavailable"
       \* "unavailable"
       \* "maintenance"
       << <<"5","0","3">>, <<"s","e","r","v","i","c","e"," ","u","n","a","v","a","i","l","a","b","l","e">>, <<"u","n","a","v","a","i","l","a","b","l","e">>, <<"m","a","i","n","t","e","n","a","n","c","e">>,
          \* "temporarily"
          \* "down"
          <<"t","e","m","p","o","r","a","r","i","l","y">>, <<"d","o","w","n">> >>,
       \* "backend"
       \* "search backend"
       \* "api error"
       << <<"b","a","c","k","e","n","d">>, <<"s","e","a","r","c","h"," ","b","a","c","k","e","n","d">>, <<"a","p","i"," ","e","r","r","o","r">> >>,
       \* "no results"
       \* "empty"
       \* "nothing found"
       << <<"n","o"," ","r","e","s","u","l","t","s">>, <<"e","m","p","t","y">>, <<"n","o","t","h","i","n","g"," ","f","o","u","n","d">> >> >>

\* the variant of each keyword set and of the default: its class and the
\* words its message starts with
VariantClass ==
    <<"RateLimitError", "TimeoutError", "NetworkError", "ServiceUnavailableError",
      "NetworkError", "NetworkError", "NetworkError">>

VariantWords ==
    \* "Rate limited"
    \* "Search timed out"
    \* "Network error"
    << <<"R","a","t","e"," ","l","i","m","i","t","e","d">>, <<"S","e","a","r","c","h"," ","t","i","m","e","d"," ","o","u","t">>, <<"N","e","t","w","o","r","k"," ","e","r","r","o","r">>,
       \* "Service unavailable"
       \* "Search backend error"
       \* "No results returned"
       <<"S","e","r","v","i","c","e"," ","u","n","a","v","a","i","l","a","b","l","e">>, <<"S","e","a","r","c","h"," ","b","a","c","k","e","n","d"," ","e","r","r","o","r">>, <<"N","o"," ","r","e","s","u","l","t","s"," ","r","e","t","u","r","n","e","d">>,
       \* "Search error"
       <<"S","e","a","r","c","h"," ","e","r","r","o","r">> >>

StartsWith(s, prefix) ==
    Len(s) >= Len(prefix) /\ SubSeq(s, 1, Len(prefix)) = prefix

\* the sets with an indicator in the lower-cased text
MatchingSets(text) ==
    LET error_str == lower(text)
    IN  {i \in 1..Len(KeywordSets) : AnyIn(KeywordSets[i], error_str)}

\* the first of them, or the default
EarliestSet(text) ==
    LET matching == MatchingSets(text)
    IN  IF matching = {} THEN Len(KeywordSets) + 1
        ELSE CHOOSE i \in matching : \A j \in matching : i <= j

Classified == op = "classify_search_error" /\ pc = "done"

\* C7: the classifier returns the variant of the earliest keyword set, in
\* the order rate-limit, timeout, network, service-unavailable, backend,
\* empty-result, that has an indicator in the lower-cased error text, also
\* when later sets match too.
C7_FirstMatchWins ==
    Classified =>
        LET k == EarliestSet(str(args.error))
            e == outcome.value[1]
        IN  /\ e.cls = VariantClass[k]
            /\ StartsWith(e.message, VariantWords[k])

\* a text with a timeout and a connection indicator classifies as timeout
C7_Witness ==
    /\ Classified
    /\ args.error.type = "DDGSException"
    \* "Connection Timed out"
    /\ args.error.text = <<"C","o","n","n","e","c","t","i","o","n"," ","T","i","m","e","d"," ","o","u","t">>
    /\ MatchingSets(args.error.text) = {2, 3}
    /\ outcome.value[1].cls = "TimeoutError"

\* C8: the classifier returns a taxonomy member for every exception, with or
\* without query and backend context; a text matching no keyword set gives
\* the plain network variant, of network category, whose message embeds the
\* text of the exception as it is.
C8_TotalWithDefault ==
    Classified =>
        LET e == outcome.value[1]
        IN  /\ outcome.kind = "returned"
            /\ e.cls \in TaxonomyClasses
            /\ e.category \in {ErrorCategory[c] : c \in DOMAIN ErrorCategory}
            /\ MatchingSets(str(args.error)) = {} =>
                 /\ e.cls = "NetworkError"
                 \* "network"
                 /\ e.category = <<"n","e","t","w","o","r","k">>
                 /\ e.message =
                      \* "Search error"
                      <<"S","e","a","r","c","h"," ","e","r","r","o","r">> \o query_context(args.query)
                      \* ": "
                      \o backend_context(args.backend) \o <<":"," ">> \o str(args.error)

\* an exception of another type, with a capital letter in its text and no
\* context
C8_Witness ==
    /\ Classified
    \* "Oops"
    /\ args.error = [type |-> "RuntimeError", text |-> <<"O","o","p","s">>, err |-> None]
    /\ args.query = None
    /\ args.backend = None
    \* "Search error: Oops"
    /\ outcome.value[1].message = <<"S","e","a","r","c","h"," ","e","r","r","o","r",":"," ","O","o","p","s">>

---------------------------------------------------------------------------
(* Properties of the number of provider calls.                             *)

Invocation == op \in {"search", "duckduckgo_search", "fetch_url", "jina_fetch"}

SearchInvocation == op \in {"search", "duckduckgo_search"}

\* C4: one search or fetch invocation makes at most two calls to the
\* provider, one after the other; in search the second call, to "brave",
\* is made only after the first, to "duckduckgo", has failed, and whatever
\* the second call does the invocation is over, with no third call.
C4_AtMostTwoCalls ==
    Invocation =>
        /\ Len(calls) <= 2
        /\ Len(upstream) = Len(calls)
        /\ ~SearchInvocation => Len(calls) <= 1
        \* "duckduckgo"
        /\ (SearchInvocation /\ Len(calls) >= 1) => calls[1].backend = <<"d","u","c","k","d","u","c","k","g","o">>
        /\ Len(calls) = 2 =>
             \* "brave"
             /\ calls[2].backend = <<"b","r","a","v","e">>
             /\ upstream[1].kind = "raise"
             /\ pc = "done"
             /\ outcome /= Pending

\* a search whose second call failed too
C4_Witness ==
    /\ op = "search"
    /\ Len(calls) = 2
    /\ Len(upstream) = 2
    /\ upstream[2].kind = "raise"
    /\ pc = "done"
    /\ outcome.kind = "raised"

---------------------------------------------------------------------------
(* Properties of the fetch classifier.                                     *)

RequestClassified == op = "classify_request_error" /\ pc = "done"

\* C9: a TLS-typed exception, which is connection-typed too, classifies to
\* the plain network variant with guidance about the certificate, never to
\* the connection variant or the DNS variant, whatever its text contains.
C9_TlsBeforeConnection ==
    (RequestClassified /\ args.error.type = "SSLError") =>
        LET e == outcome.value[1]
        IN  /\ requests_isinstance(args.error, "ConnectionError")
            /\ e.cls = "NetworkError"
            /\ e.cls \notin {"ConnectionError", "DNSError"}
            \* "SSL certificate"
            /\ Contains(guidance(e), <<"S","S","L"," ","c","e","r","t","i","f","i","c","a","t","e">>)
            /\ guidance(e) /= class_default_guidance("NetworkError")

\* a TLS-typed exception whose text has the words of a DNS failure and of a
\* refused connection
C9_Witness ==
    /\ RequestClassified
    /\ args.error.type = "SSLError"
    \* "getaddrinfo failed"
    /\ Contains(lower(args.error.text), <<"g","e","t","a","d","d","r","i","n","f","o"," ","f","a","i","l","e","d">>)
    \* "connection refused"
    /\ Contains(lower(args.error.text), <<"c","o","n","n","e","c","t","i","o","n"," ","r","e","f","u","s","e","d">>)
    /\ outcome.value[1].cls = "NetworkError"

\* the status of the response attached to the exception, if any
ResponseStatus ==
    IF args.error.response = None THEN None
    ELSE Some(args.error.response[1].status_code)

\* C10: for an HTTP-status exception the classifier dispatches on the
\* status of the response: 429 gives the rate-limit variant, 503 the
\* service-unavailable variant, 404, 403 and any other status from 500 to
\* 599 a generic HTTP error with guidance of its own, any other status or no
\* response a generic HTTP error; the result is always of service category
\* and its status_code is the status of the response, absent without one.
C10_StatusDispatch ==
    (RequestClassified /\ args.error.type = "HTTPError") =>
        LET e == outcome.value[1]
            st == ResponseStatus
        \* "service"
        IN  /\ e.category = <<"s","e","r","v","i","c","e">>
            /\ e.status_code = st
            /\ e.cls = IF st = Some(429) THEN "RateLimitError"
                       ELSE IF st = Some(503) THEN "ServiceUnavailableError"
                       ELSE "HTTPError"
            \* "page may have been removed"
            /\ st = Some(404) => Contains(guidance(e), <<"p","a","g","e"," ","m","a","y"," ","h","a","v","e"," ","b","e","e","n"," ","r","e","m","o","v","e","d">>)
            \* "refused to grant access"
            /\ st = Some(403) => Contains(guidance(e), <<"r","e","f","u","s","e","d"," ","t","o"," ","g","r","a","n","t"," ","a","c","c","e","s","s">>)
            /\ (st /= None /\ st[1] \notin {429, 503} /\ 500 <= st[1] /\ st[1] < 600)
                   \* "Wait a few moments and try again"
                   => Contains(guidance(e), <<"W","a","i","t"," ","a"," ","f","e","w"," ","m","o","m","e","n","t","s"," ","a","n","d"," ","t","r","y"," ","a","g","a","i","n">>)
            /\ (st = None \/ (st[1] \notin {429, 404, 403} /\ (st[1] < 500 \/ st[1] >= 600)))
                   => /\ guidance(e) = class_default_guidance("HTTPError")
                      \* "HTTP error"
                      /\ StartsWith(e.message, <<"H","T","T","P"," ","e","r","r","o","r">>)

\* a 502 response
C10_Witness ==
    /\ RequestClassified
    /\ args.error.type = "HTTPError"
    /\ ResponseStatus = Some(502)
    /\ outcome.value[1].status_code = Some(502)
    /\ outcome.value[1].cls = "HTTPError"
    /\ guidance(outcome.value[1]) = guidance_fetch_5xx

\* C11: for a response of status 429 the fetch classifier returns the
\* rate-limit variant and does not raise; retry_after is the integer of the
\* Retry-After header when the header is there and is an integer ("60"
\* gives 60), and None when the header is absent or is not an integer
\* ("not-a-number").
C11_RetryAfter ==
    (RequestClassified /\ args.error.type = "HTTPError" /\ ResponseStatus = Some(429)) =>
        LET e == outcome.value[1]
            header == args.error.response[1].retry_after_header
        IN  /\ outcome.kind = "returned"
            /\ e.cls = "RateLimitError"
            /\ header = None => e.retry_after = None
            /\ header /= None => e.retry_after = int_of_str(header[1])
            \* "60"
            /\ header = Some(<<"6","0">>) => e.retry_after = Some(60)
            \* "not-a-number"
            /\ header = Some(<<"n","o","t","-","a","-","n","u","m","b","e","r">>) => e.retry_after = None

\* the header "60"
C11_Witness ==
    /\ RequestClassified
    /\ args.error.type = "HTTPError"
    /\ ResponseStatus = Some(429)
    \* "60"
    /\ args.error.response[1].retry_after_header = Some(<<"6","0">>)
    /\ outcome.value[1].cls = "RateLimitError"
    /\ outcome.value[1].retry_after = Some(60)

---------------------------------------------------------------------------
(* Properties of the validation of search parameters.                      *)

\* a query that is absent, empty or not text
QueryRejected(query) == ~(query.t = "str" /\ query.s /= <<>>)

\* a max_results that is not an integer greater than zero
MaxResultsRejected(max_results) == ~(max_results.t = "int" /\ max_results.n > 0)

\* a max_results that the tool cannot convert to an integer greater than zero
MaxResultsRefused(max_results) ==
    int_of(max_results) = None \/ int_of(max_results)[1] <= 0

\* the invocation in progress is one whose parameters are not valid
FailsValidation ==
    \/ /\ op = "search"
       /\ QueryRejected(args.query) \/ MaxResultsRejected(args.max_results)
    \/ /\ op = "duckduckgo_search"
       /\ \/ QueryRejected(args.query)
          \/ MaxResultsRefused(args.max_results)
          \* "json"
          \* "text"
          \/ lower(args.output_format) \notin {<<>>, <<"j","s","o","n">>, <<"t","e","x","t">>}

\* C12: an invocation of search, through the tool or not, whose parameters
\* fail validation never calls the search provider, and ends with a
\* validation error.
C12_ValidationBeforeNetwork ==
    (SearchInvocation /\ FailsValidation) =>
        /\ calls = <<>>
        /\ upstream = <<>>
        /\ pc /= "fallback"
        /\ pc = "done" =>
             /\ outcome.kind = "raised"
             /\ outcome.error[1].cls = "ValidationError"
             \* "validation"
             /\ outcome.error[1].category = <<"v","a","l","i","d","a","t","i","o","n">>

\* the search given an empty query has ended without a call
C12_Witness ==
    /\ op = "search"
    /\ args.query = PyStr(<<>>)
    /\ pc = "done"
    /\ outcome.kind = "raised"
    \* "validation"
    /\ outcome.error[1].category = <<"v","a","l","i","d","a","t","i","o","n">>
    /\ calls = <<>>

Validated == op = "validate_search_params" /\ pc = "done"

normalized_safesearch(safesearch) ==
    \* "on"
    \* "moderate"
    \* "off"
    IF safesearch \in { <<"o","n">>, <<"m","o","d","e","r","a","t","e">>, <<"o","f","f">> } THEN safesearch
    \* "moderate"
    ELSE <<"m","o","d","e","r","a","t","e">>

\* C14: no search fails because of its safesearch value: a search whose
\* query and max_results are valid reaches the provider, and every call,
\* the primary one and the fallback one, carries the requested value when
\* it is exactly "on", "moderate" or "off" and "moderate" otherwise.
C14_SafesearchNormalized ==
    SearchInvocation =>
        /\ (~FailsValidation /\ pc = "done") => Len(calls) >= 1
        /\ \A i \in 1..Len(calls) :
             calls[i].safesearch = normalized_safesearch(args.safesearch)

\* a search asked for "ON" whose two calls were made with "moderate"
C14_Witness ==
    /\ op = "search"
    \* "ON"
    /\ args.safesearch = <<"O","N">>
    /\ Len(calls) = 2
    \* "moderate"
    /\ calls[1].safesearch = <<"m","o","d","e","r","a","t","e">>
    \* "moderate"
    /\ calls[2].safesearch = <<"m","o","d","e","r","a","t","e">>
    \* "brave"
    /\ calls[2].backend = <<"b","r","a","v","e">>

\* the tool was given a query that is a non-empty text
ToolSearches ==
    /\ op = "duckduckgo_search"
    /\ ~QueryRejected(args.query)

\* C15: the tool converts a max_results given as text to the integer it
\* spells and searches with that integer; it fails with a validation error
\* naming max_results, without searching, when the text spells no integer
\* and when the integer is zero or negative.
C15_MaxResultsCoerced ==
    ToolSearches =>
        IF MaxResultsRefused(args.max_results)
        THEN /\ calls = <<>>
             /\ pc = "done" =>
                  /\ outcome.kind = "raised"
                  /\ outcome.error[1].cls = "ValidationError"
                  \* "validation"
                  /\ outcome.error[1].category = <<"v","a","l","i","d","a","t","i","o","n">>
                  \* "max_results"
                  /\ Contains(outcome.error[1].message, <<"m","a","x","_","r","e","s","u","l","t","s">>)
        ELSE /\ \A i \in 1..Len(calls) :
                  calls[i].max_results = PyInt(int_of(args.max_results)[1])
             /\ (pc = "done" /\ ~FailsValidation) => Len(calls) >= 1

\* a search asked for "5" results that reached the provider asking for 5
C15_Witness ==
    /\ ToolSearches
    \* "5"
    /\ args.max_results = PyStr(<<"5">>)
    /\ Len(calls) >= 1
    /\ calls[1].max_results = PyInt(5)

\* a search that is over and has returned its results
SearchReturned == op = "search" /\ pc = "done" /\ outcome.kind = "returned"

\* the records the provider returned on the last call of the invocation
last_raw == upstream[Len(upstream)].results

\* C16: the results a search returns are as many as the records the provider
\* returned on the call that succeeded, primary or fallback, in the same
\* order, and each carries a position field, the positions being 1..N in
\* that order.
C16_PositionsNumbered ==
    SearchReturned =>
        LET out == outcome.value[1]
        IN  /\ Len(out) = Len(last_raw)
            /\ \A i \in 1..Len(out) :
                 /\ out[i].title = dict_get(last_raw[i].title, <<>>)
                 /\ out[i].url = dict_get(last_raw[i].href, <<>>)
                 /\ out[i].snippet = dict_get(last_raw[i].body, <<>>)
                 /\ "position" \in DOMAIN out[i]
                 /\ out[i].position = i

\* the results are as many as the records and in their order (the part of
\* C16 that does not speak of positions)
C16_SameLengthSameOrder ==
    SearchReturned =>
        /\ outcome.value[1] = execute_search_results(last_raw)
        /\ Len(outcome.value[1]) = Len(last_raw)

\* two results returned by the fallback call, neither with a position
C16_Witness ==
    /\ SearchReturned
    /\ Len(calls) = 2
    /\ Len(outcome.value[1]) = 2
    /\ outcome.value[1][1] /= outcome.value[1][2]
    /\ \A i \in 1..2 : DOMAIN outcome.value[1][i] = {"title", "url", "snippet"}

\* truncation has been applied to the content
TruncatedOnce == op = "truncate_content" /\ pc \in {"once", "twice"}

\* the first n characters of a text, none for an n that is not positive
first_chars(content, n) ==
    IF n <= 0 THEN <<>>
    ELSE IF n >= Len(content) THEN content
    ELSE [i \in 1..n |-> content[i]]

TruncatedTwice == op = "truncate_content" /\ pc = "twice"

UrlMissing(url) == url.t /= "str" \/ url.s = <<>>

\* a URL that is to be refused: missing or empty, with whitespace anywhere
\* in it, with a scheme other than http and https, or without a host
UrlRefused(url) ==
    \/ UrlMissing(url)
    \/ \E i \in 1..Len(url.s) : url.s[i] \in Whitespace
    \* "http"
    \* "https"
    \/ urlparse(url.s).scheme \notin { <<"h","t","t","p">>, <<"h","t","t","p","s">> }
    \/ urlparse(url.s).netloc = <<>>

\* C19: fetch_url refuses with an invalid-URL error of the validation
\* category, without calling the reader, every URL that is missing or
\* empty, has whitespace anywhere, has a scheme other than http and https,
\* or has no host; for every other URL it goes on to call the reader.
C19_UrlValidation ==
    (op = "fetch_url" /\ pc = "done") =>
        IF UrlRefused(args.url)
        THEN /\ calls = <<>>
             /\ outcome.kind = "raised"
             /\ outcome.error[1].cls = "InvalidURLError"
             \* "validation"
             /\ outcome.error[1].category = <<"v","a","l","i","d","a","t","i","o","n">>
        ELSE Len(calls) = 1

\* a URL with a tab in its path, for which the reader was called
C19_Witness ==
    /\ op = "fetch_url"
    /\ pc = "done"
    \* "https://a.io/x\ty"
    /\ args.url = PyStr(<<"h","t","t","p","s",":","/","/","a",".","i","o","/","x","\t","y">>)
    /\ Len(calls) = 1
    /\ outcome.kind = "returned"

\* what the code does refuse: a URL that is not a non-empty text, that has a
\* space inside once the whitespace around it is taken off, or whose scheme
\* or host, as urlparse reads them from the trimmed text, is not http or
\* https or is absent
UrlRefusedByCode(url) ==
    \/ UrlMissing(url)
    \/ \E i \in 1..Len(strip(url.s)) : strip(url.s)[i] = " "
    \* "http"
    \* "https"
    \/ urlparse(strip(url.s)).scheme \notin { <<"h","t","t","p">>, <<"h","t","t","p","s">> }
    \/ urlparse(strip(url.s)).netloc = <<>>

\* the refusals of fetch_url as the code makes them; a URL whose host has
\* one square bracket without the other ends in the ValueError of urlparse
C19_UrlValidationOfCode ==
    (op = "fetch_url" /\ pc = "done") =>
        IF UrlRefusedByCode(args.url)
        THEN /\ calls = <<>>
             /\ outcome.kind = "raised"
             /\ outcome.error[1].cls = "InvalidURLError"
             \* "validation"
             /\ outcome.error[1].category = <<"v","a","l","i","d","a","t","i","o","n">>
        ELSE IF urlparse(strip(args.url.s)).invalid
        THEN /\ calls = <<>>
             /\ outcome.kind = "raised"
             /\ outcome.error[1].cls = "ValueError"
        ELSE Len(calls) = 1

\* the format and the max_length an invocation of fetch was given
fetch_format == IF op = "jina_fetch" THEN args.format ELSE args.output_format

\* a format that is neither markdown nor json, in any case of letters
\* "markdown"
\* "json"
FormatRefused == lower(fetch_format) \notin { <<"m","a","r","k","d","o","w","n">>, <<"j","s","o","n">> }

\* a max_length that is given and is not an integer greater than zero
MaxLengthRefused ==
    /\ args.max_length /= PyNone
    /\ int_of(args.max_length) = None \/ int_of(args.max_length)[1] <= 0

\* C20: an invocation of fetch, through the tool jina_fetch or through
\* fetch_url as the command line calls it, whose format is unknown or whose
\* max_length is given and is not a positive integer, fails with an error
\* of the taxonomy, of the validation category, and does not call the
\* reader.
C20_FetchParametersValidated ==
    (op \in {"fetch_url", "jina_fetch"} /\ (FormatRefused \/ MaxLengthRefused)) =>
        /\ calls = <<>>
        /\ pc = "done" =>
             /\ outcome.kind = "raised"
             /\ outcome.error[1].cls \in TaxonomyClasses
             \* "validation"
             /\ outcome.error[1].category = <<"v","a","l","i","d","a","t","i","o","n">>

\* fetch_url given a max_length of zero, for which the reader was called
C20_Witness ==
    /\ op = "fetch_url"
    \* "markdown"
    /\ args.output_format = <<"m","a","r","k","d","o","w","n">>
    /\ args.max_length = PyInt(0)
    /\ pc = "done"
    /\ Len(calls) = 1
    /\ outcome.kind = "returned"

\* what the tool does with such parameters when it has a URL: it makes no
\* call and raises a ValueError, which is not an error of the taxonomy
C20_ToolRaisesValueError ==
    (op = "jina_fetch" /\ truthy(args.url) /\ (FormatRefused \/ MaxLengthRefused)) =>
        /\ calls = <<>>
        /\ pc = "done" =>
             /\ outcome.kind = "raised"
             /\ outcome.error[1].cls = "ValueError"
             /\ outcome.error[1].cls \notin TaxonomyClasses

---------------------------------------------------------------------------
(* Properties of the command line.                                         *)

\* a handler of the command line has returned
Handled == op \in {"cli_search", "cli_fetch"} /\ pc = "done"

\* what the handler that has returned would have done with the debug flag
\* as given
handled(debug) ==
    IF op = "cli_search" THEN handle_search(frame[1], args.output_format, debug)
    ELSE handle_fetch(frame[1], args.format, debug)

\* the records of one log are among those of another, in their order
LogWithin(short, long) ==
    Len(short) <= Len(long) /\ \A i \in 1..Len(short) : short[i] = long[i]

\* the exit code is 0 for a success and 1 for an error, and it and what is
\* printed on stdout are the same with and without --debug
ExitCodeAndStdout ==
    /\ outcome.value[1] = handled(args.debug)
    /\ handled(TRUE).exit_code = (IF frame[1].kind = "returned" THEN 0 ELSE 1)
    /\ handled(FALSE).exit_code = handled(TRUE).exit_code
    /\ handled(FALSE).stdout = handled(TRUE).stdout
    /\ frame[1].kind = "returned" =>
         /\ Len(handled(TRUE).stdout) = 1
         /\ handled(TRUE).stderr = <<>>
         /\ handled(FALSE).stderr = <<>>
    /\ frame[1].kind = "raised" =>
         /\ handled(TRUE).stdout = <<>>
         /\ Len(handled(TRUE).stderr) = 1
         /\ Len(handled(FALSE).stderr) = 1
         /\ LogWithin(handled(FALSE).log, handled(TRUE).log)

---------------------------------------------------------------------------
(* Properties of the taxonomy.                                             *)

\* an error of the taxonomy has been constructed
Constructed == op = "construct" /\ pc = "done"

\* the guidance of an error constructed without one: the text computed from
\* retry_after or port, or the default of its class
guidance_without_instance ==
    IF args.cls = "RateLimitError" /\ args.extra /= None
    THEN StartsWith(outcome.value[1].guidance,
                    \* "You've been rate limited. Please wait 7 seconds"
                    <<"Y","o","u","'","v","e"," ","b","e","e","n"," ","r","a","t","e"," ","l","i","m","i","t","e","d","."," ","P","l","e","a","s","e"," ","w","a","i","t"," ","7"," ","s","e","c","o","n","d","s">>)
    ELSE IF args.cls = "PortBindingError" /\ args.extra /= None
    \* "Failed to bind to port 7."
    THEN StartsWith(outcome.value[1].guidance, <<"F","a","i","l","e","d"," ","t","o"," ","b","i","n","d"," ","t","o"," ","p","o","r","t"," ","7",".">>)
    ELSE outcome.value[1].guidance = class_default_guidance(args.cls)

\* C22: every error of the taxonomy, of every class and however it was
\* constructed, has a guidance that is not empty; constructed without a
\* guidance of its own it has the default of its class, or the text
\* computed from retry_after or port.
C22_GuidanceNeverEmpty ==
    Constructed =>
        /\ outcome.value[1].guidance /= <<>>
        /\ args.guidance = None => guidance_without_instance

\* the guidance of an error as the code gives it: the guidance it was
\* constructed with, empty if that was empty, and without one the default
\* or the computed text, none of which is empty
C22_GuidanceOfCode ==
    Constructed =>
        /\ args.guidance /= None => outcome.value[1].guidance = args.guidance[1]
        /\ args.guidance = None =>
             /\ guidance_without_instance
             /\ outcome.value[1].guidance /= <<>>

\* a rate-limit error constructed with an empty guidance and a retry_after
C22_Witness ==
    /\ Constructed
    /\ args.cls = "RateLimitError"
    /\ args.guidance = Some(<<>>)
    /\ args.extra = Some(7)
    /\ outcome.value[1].error.retry_after = Some(7)
    /\ outcome.value[1].guidance = <<>>

---------------------------------------------------------------------------
(* Properties of the propagation of errors.                                *)

\* the search is over and its last call raised an error of the taxonomy
LastCallRaisedTaxonomy ==
    /\ SearchInvocation
    /\ pc = "done"
    /\ upstream /= <<>>
    /\ upstream[Len(upstream)].kind = "raise"
    /\ upstream[Len(upstream)].exc[1].type = "MCPError"

\* C23: an error of the taxonomy raised by a call of a search, the primary
\* call or the fallback call, reaches the caller as it is: the same class,
\* message, code and guidance, not classified again and not wrapped.
C23_TaxonomyErrorUnchanged ==
    LastCallRaisedTaxonomy =>
        /\ outcome.kind = "raised"
        /\ outcome.error[1] = upstream[Len(upstream)].exc[1].err[1]

\* the part of C23 that is about the primary call
C23_PrimaryUnchanged ==
    (LastCallRaisedTaxonomy /\ Len(upstream) = 1) =>
        /\ outcome.kind = "raised"
        /\ outcome.error[1] = upstream[1].exc[1].err[1]
        /\ Len(calls) = 1

\* a validation error raised by the fallback call that reached the caller
\* inside a network error
C23_Witness ==
    /\ LastCallRaisedTaxonomy
    /\ Len(upstream) = 2
    /\ upstream[2].exc[1].err[1].cls = "ValidationError"
    /\ outcome.kind = "raised"
    /\ outcome.error[1].cls = "NetworkError"
    \* "Search failed unexpectedly. "
    /\ StartsWith(outcome.error[1].message, <<"S","e","a","r","c","h"," ","f","a","i","l","e","d"," ","u","n","e","x","p","e","c","t","e","d","l","y","."," ">>)
    /\ Contains(outcome.error[1].message, upstream[2].exc[1].err[1].message)

\* an operation that called the provider is over and has raised
FailedAfterCall ==
    /\ Invocation
    /\ pc = "done"
    /\ Len(calls) >= 1
    /\ outcome.kind = "raised"

\* an error of the taxonomy with its category, code, message and guidance
CarriesTaxonomy(e) ==
    /\ e.cls \in TaxonomyClasses
    /\ e.category \in {ErrorCategory.NETWORK, ErrorCategory.SERVICE,
                       ErrorCategory.VALIDATION, ErrorCategory.CONTENT,
                       ErrorCategory.UNKNOWN}
    /\ e.error_code /= <<>>
    /\ e.message /= <<>>
    /\ guidance(e) /= <<>>

\* C24: a search or a fetch that fails after it has called the provider,
\* whatever the provider raised or returned, raises an error of the
\* taxonomy with category, code, message and guidance; no other exception
\* leaves the operation.
C24_TaxonomyFirst ==
    FailedAfterCall => CarriesTaxonomy(outcome.error[1])

\* the part of C24 that is about search
C24_SearchTaxonomyFirst ==
    (FailedAfterCall /\ SearchInvocation) => CarriesTaxonomy(outcome.error[1])

\* the part of C24 that fetch_url keeps: what it raises for an exception of
\* the requests library, an HTTP status or a body that is not JSON
C24_FetchRequestsTaxonomyFirst ==
    (FailedAfterCall /\ ~SearchInvocation
        /\ \/ upstream[1].kind = "return" /\ upstream[1].response[1].json = None
           \/ upstream[1].kind = "return" /\ upstream[1].response[1].status_code >= 400
           \/ upstream[1].kind = "raise" /\ upstream[1].exc[1].type \in RequestsClasses)
    => CarriesTaxonomy(outcome.error[1])

\* a fetch whose call raised a RuntimeError, which left fetch_url as it was
C24_Witness ==
    /\ FailedAfterCall
    /\ op = "fetch_url"
    /\ upstream[1].kind = "raise"
    /\ upstream[1].exc[1].type = "RuntimeError"
    /\ outcome.error[1].cls = "RuntimeError"
    /\ outcome.error[1].message = upstream[1].exc[1].text

---------------------------------------------------------------------------
(* Properties of the backend context in classified messages.               *)

\* the primary call of a search raised an error of the search library's type
PrimaryRaisedUpstream ==
    /\ op = "search"
    /\ Len(upstream) >= 1
    /\ upstream[1].kind = "raise"
    /\ upstream[1].exc[1].type = "DDGSException"

\* the text of that error
primary_text == upstream[1].exc[1].text

\* the keyword sets whose message embeds the backend context: timeout and
\* the default
BackendContextSets == {2, Len(KeywordSets) + 1}

\* C25: a primary upstream failure the classifier maps to the default or the
\* timeout branch never triggers the fallback: exactly one call is made and
\* the raised error, of that branch's variant, has "backend" in its message.
C25_BackendContextNoFallback ==
    PrimaryRaisedUpstream =>
        LET k == EarliestSet(primary_text)
        IN  k \in BackendContextSets =>
              /\ pc = "done"
              /\ Len(calls) = 1
              /\ calls[1].backend = PRIMARY_BACKEND
              /\ outcome.kind = "raised"
              /\ outcome.error[1].cls = VariantClass[k]
              /\ StartsWith(outcome.error[1].message, VariantWords[k])
              /\ HasBackendWord(outcome.error[1].message)

\* an unrecognised failure of a query without the word
C25_Witness ==
    /\ PrimaryRaisedUpstream
    /\ pc = "done"
    \* "Oops"
    /\ primary_text = <<"O","o","p","s">>
    \* "cats"
    /\ args.query = PyStr(<<"c","a","t","s">>)
    /\ Len(calls) = 1
    /\ outcome.kind = "raised"
    \* "Search error for query: 'cats' using backend 'duckduckgo': Oops"
    /\ outcome.error[1].message = <<"S","e","a","r","c","h"," ","e","r","r","o","r"," ","f","o","r"," ","q","u","e","r","y",":"," ","'","c","a","t","s","'"," ","u","s","i","n","g"," ","b","a","c","k","e","n","d"," ","'","d","u","c","k","d","u","c","k","g","o","'",":"," ","O","o","p","s">>

---------------------------------------------------------------------------
(* Properties of the JSON path of fetch_url.                               *)

\* fetch_url returned the JSON record of a response
JsonReturned ==
    /\ op = "fetch_url"
    /\ pc = "done"
    \* "json"
    /\ lower(args.output_format) = <<"j","s","o","n">>
    /\ Len(upstream) = 1
    /\ upstream[1].kind = "return"
    /\ upstream[1].response[1].json /= None
    /\ upstream[1].response[1].json[1].kind = "dict"
    /\ outcome.kind = "returned"

\* the JSON record the reader sent
sent_record == upstream[1].response[1].json[1]

\* the content member is left alone: max_length is unset, the member is
\* absent or empty, or it is no longer than max_length
ContentLeftAlone ==
    \/ args.max_length = PyNone
    \/ sent_record.content = None
    \/ sent_record.content[1] = PyNone
    \/ sent_record.content[1] = PyStr(<<>>)
    \/ /\ sent_record.content[1].t = "str"
       /\ args.max_length.t = "int"
       /\ Len(sent_record.content[1].s) <= args.max_length.n

\* C26: on the JSON path truncation changes only the content member of the
\* record: every other member is returned as the reader sent it, and the
\* content member too when max_length is unset, when the member is absent
\* or empty, or when it is no longer than max_length.
C26_JsonOnlyContentChanges ==
    JsonReturned =>
        /\ [outcome.value[1] EXCEPT !.content = None] = [sent_record EXCEPT !.content = None]
        /\ ContentLeftAlone => outcome.value[1] = sent_record
        /\ ~ContentLeftAlone =>
              outcome.value[1].content =
                  Some(PyStr(truncate_content(sent_record.content[1].s, args.max_length)))

\* a record whose content was truncated and whose title was kept
C26_Witness ==
    /\ JsonReturned
    /\ args.max_length = PyInt(3)
    \* "Hello"
    \* "T"
    /\ sent_record = JsonObject(Some(PyStr(<<"H","e","l","l","o">>)), Some(<<"T">>))
    \* "Hel... (content truncated)"
    \* "T"
    /\ outcome.value[1] = JsonObject(Some(PyStr(<<"H","e","l",".",".","."," ","(","c","o","n","t","e","n","t"," ","t","r","u","n","c","a","t","e","d",")">>)), Some(<<"T">>))

---------------------------------------------------------------------------
(* The exact condition of the second call of a search.                     *)

\* the keyword sets whose message has neither the backend context nor the
\* word itself, and whose variant is not the rate-limit one: network,
\* service-unavailable and empty-result
FallbackSets == {3, 4, 6}

\* TRUE when a second call is due: the primary call raised an error of the
\* search library's type with a text of one of these sets, and the query
\* has no "backend" in any letter case
SecondCallDue ==
    /\ PrimaryRaisedUpstream
    /\ EarliestSet(primary_text) \in FallbackSets
    /\ ~HasBackendWord(args.query.s)

\* C27: a search makes a second call if and only if its primary call raised
\* an error of the search library's type that the classifier puts in the
\* network, the service-unavailable or the empty-result branch, and the
\* query has no "backend" in any letter case; every classified message
\* embeds the query, so a query with the word suppresses the fallback for
\* every primary failure.
C27_SecondCallExactly ==
    (op = "search" /\ pc /= "start") =>
        /\ (pc = "fallback") => Len(calls) = 1 /\ SecondCallDue
        /\ (pc = "done") => (SecondCallDue <=> Len(calls) = 2)
        /\ (pc = "done" /\ Len(calls) = 2) => calls[2].backend = FALLBACK_BACKEND
        /\ (PrimaryRaisedUpstream /\ HasBackendWord(args.query.s)) =>
              /\ pc = "done"
              /\ Len(calls) = 1
              /\ outcome.kind = "raised"
              /\ Contains(outcome.error[1].message, args.query.s)

\* a connection failure of a query with the word, which is not retried
C27_Witness ==
    /\ op = "search"
    /\ pc = "done"
    /\ PrimaryRaisedUpstream
    \* "Connection"
    /\ primary_text = <<"C","o","n","n","e","c","t","i","o","n">>
    \* "My Backend"
    /\ args.query = PyStr(<<"M","y"," ","B","a","c","k","e","n","d">>)
    /\ Len(calls) = 1
    /\ outcome.kind = "raised"
    \* "Network error for query: 'My Backend'. Unable to connect to DuckDuckGo."
    /\ outcome.error[1].message = <<"N","e","t","w","o","r","k"," ","e","r","r","o","r"," ","f","o","r"," ","q","u","e","r","y",":"," ","'","M","y"," ","B","a","c","k","e","n","d","'","."," ","U","n","a","b","l","e"," ","t","o"," ","c","o","n","n","e","c","t"," ","t","o"," ","D","u","c","k","D","u","c","k","G","o",".">>

\* a connection failure of a query without the word, which is retried
C27_Retried ==
    /\ op = "search"
    /\ pc = "done"
    /\ PrimaryRaisedUpstream
    \* "Connection"
    /\ primary_text = <<"C","o","n","n","e","c","t","i","o","n">>
    \* "cats"
    /\ args.query = PyStr(<<"c","a","t","s">>)
    /\ Len(calls) = 2

---------------------------------------------------------------------------
(* A primary call that raises an exception of an unexpected class.         *)

\* the primary call of a search raised an exception that is neither of the
\* search library's type nor of the taxonomy
PrimaryRaisedUnexpected ==
    /\ op = "search"
    /\ Len(upstream) >= 1
    /\ upstream[1].kind = "raise"
    /\ upstream[1].exc[1].type \notin {"DDGSException", "MCPError"}

\* C28: when the primary call raises an exception that is neither of the
\* search library's type nor a taxonomy error, search raises its
\* classification without entering the fallback policy: exactly one call is
\* made, also when the variant is one the policy would have retried.
C28_UnexpectedNoFallback ==
    PrimaryRaisedUnexpected =>
        LET k == EarliestSet(upstream[1].exc[1].text)
        IN  /\ pc = "done"
            /\ Len(calls) = 1
            /\ ~PolicyEntered
            /\ outcome.kind = "raised"
            /\ outcome.error[1].cls = VariantClass[k]
            /\ StartsWith(outcome.error[1].message, VariantWords[k])

\* a connection failure of an unexpected class: its classification is one
\* the policy retries, and no second call is made
C28_Witness ==
    /\ PrimaryRaisedUnexpected
    /\ pc = "done"
    /\ upstream[1].exc[1].type = "RuntimeError"
    \* "Connection"
    /\ upstream[1].exc[1].text = <<"C","o","n","n","e","c","t","i","o","n">>
    \* "cats"
    /\ args.query = PyStr(<<"c","a","t","s">>)
    /\ Len(calls) = 1
    /\ outcome.kind = "raised"
    /\ outcome.error[1].cls = "NetworkError"
    /\ ~fallback_skipped(outcome.error[1])

---------------------------------------------------------------------------
(* The URL fetch_url validates and the URL it sends.                       *)

\* a URL that is a valid http or https URL with whitespace before or after
\* it and nowhere else
SurroundedByWhitespace(url) ==
    /\ url.t = "str"
    /\ strip(url.s) /= url.s
    /\ ~UrlRefused(PyStr(strip(url.s)))

\* C29: fetch_url validates the URL with the whitespace around it taken
\* off and builds the request from the string as the caller gave it: a
\* valid http or https URL with whitespace only before or after it is
\* accepted, and the request to the reader embeds the percent-encoded
\* string with its whitespace, not the validated one.
C29_ValidatesTrimmedSendsOriginal ==
    (op = "fetch_url" /\ pc = "done") =>
        /\ SurroundedByWhitespace(args.url) =>
              /\ Len(calls) = 1
              /\ calls[1].url /= JINA_READER_BASE_URL \o quote(strip(args.url.s))
              /\ ~(outcome.kind = "raised" /\ outcome.error[1].cls = "ValidationError")
        /\ Len(calls) = 1 => calls[1].url = JINA_READER_BASE_URL \o quote(args.url.s)

\* a URL between two spaces, sent with both spaces encoded
C29_Witness ==
    /\ op = "fetch_url"
    /\ pc = "done"
    \* " https://a.io "
    /\ args.url = PyStr(<<" ","h","t","t","p","s",":","/","/","a",".","i","o"," ">>)
    /\ Len(calls) = 1
    \* "https://r.jina.ai/%20https%3A//a.io%20"
    /\ calls[1].url = <<"h","t","t","p","s",":","/","/","r",".","j","i","n","a",".","a","i","/","%","2","0","h","t","t","p","s","%","3","A","/","/","a",".","i","o","%","2","0">>
    /\ outcome.kind = "returned"

---------------------------------------------------------------------------
(* The length of a truncated content.                                      *)

\* the length of the suffix truncation appends
SuffixLength == 23

\* C30: for every content longer than a positive max_length the truncated
\* result has max_length + 23 characters, 23 being the length of the
\* suffix, so it is longer than max_length; for a content of max_length + 1
\* to max_length + 22 characters it is longer than the content.
C30_TruncatedLength ==
    (/\ TruncatedOnce
     /\ args.max_length.t = "int"
     /\ args.max_length.n > 0
     /\ Len(args.content) > args.max_length.n) =>
        LET result == outcome.value[1][1]
            n == args.max_length.n
        IN  /\ Len(TRUNCATION_SUFFIX) = SuffixLength
            /\ Len(result) = n + SuffixLength
            /\ Len(result) > n
            /\ Len(args.content) \in (n + 1)..(n + SuffixLength - 1) =>
                  Len(result) > Len(args.content)

\* a content of four characters cut at two: the result has twenty-five
C30_Witness ==
    /\ TruncatedOnce
    \* "Hell"
    /\ args.content = <<"H","e","l","l">>
    /\ args.max_length = PyInt(2)
    /\ Len(outcome.value[1][1]) = 25
    /\ Len(outcome.value[1][1]) > Len(args.content)

====
